---- MODULE Spec2Model ----
(***************************************************************************)
(* Model of the aggregation core of the GitHub profile dashboard:          *)
(*   - MetricsProcessor.calculate_activity_streak                          *)
(*       (src/src/processors/metrics_processor.py)                         *)
(*   - daily_metrics.calculate_activity_streak, fed by collect_metrics     *)
(*       (src/src/scripts/daily_metrics.py)                                *)
(*   - CareerTimelineGenerator._calculate_total_experience                 *)
(*       (src/src/generators/career_timeline_generator.py)                 *)
(*   - RankingsProcessor.generate_rankings                                 *)
(*       (src/src/processors/rankings_processor.py)                        *)
(*   - ActivityCalendarGenerator.generate_activity_calendar                *)
(*       (src/src/generators/activity_calendar_generator.py)               *)
(*   - EnhancedSVGRenderer.generate_streak_card                            *)
(*       (src/src/generators/enhanced_svg_renderer.py)                     *)
(*   - generate_complete_dashboard.main                                    *)
(*       (src/src/scripts/generate_complete_dashboard.py)                  *)
(*   - GitHubCollector.collect_commits / _pull_requests / _issues          *)
(*       (src/src/collectors/github_collector.py)                          *)
(*   - daily_metrics.main and daily_metrics.update_history                 *)
(*       (src/src/scripts/daily_metrics.py)                                *)
(*   - the developer tier of the enhanced, simple and compact renderers    *)
(*       (src/src/generators/enhanced_svg_renderer.py,                     *)
(*        simple_svg_renderer.py, compact_components.py)                   *)
(*                                                                         *)
(* Calendar dates are day ordinals (day 1 = 2024-01-01); a commit's ISO    *)
(* timestamp is kept at day granularity, which is all that both            *)
(* datetime.fromisoformat(..).date() and the [:10] string prefix retain.   *)
(***************************************************************************)
EXTENDS Integers, Sequences, FiniteSets, TLC

VARIABLES
    commits,          \* the collected commit records (any order, duplicates)
    today,            \* the calendar date the clock reports during the run
    streakPhase,      \* which streak computations have run
    streak,           \* result of MetricsProcessor.calculate_activity_streak
    commits_by_date,  \* collect_metrics: date -> number of commits
    script_streak,    \* result of daily_metrics.calculate_activity_streak
    entries,          \* career entries handed to _calculate_total_experience
    now,              \* the datetime that datetime.now() returns during the run
    careerPc,         \* position inside _calculate_total_experience
    periods,          \* the (start, end) pairs of the work entries
    merged,           \* the merged periods built by the fold
    next_period,      \* index in periods of the pair the fold takes next
    total_months,     \* sum of the months of the merged periods
    total_experience, \* the returned string
    repos,            \* RankingsProcessor.repos, in collection order
    rank_commits,     \* RankingsProcessor.commits: the repo name of each commit
    rank_prs,         \* RankingsProcessor.prs: the repo name of each pull request
    rank_issues,      \* RankingsProcessor.issues: the repo name of each issue
    limit,            \* the limit handed to the ranking methods
    rankPc,           \* number of rankings generate_rankings has computed
    top_projects,     \* result of rank_by_activity
    most_active,      \* result of rank_by_commits
    most_stars,       \* result of rank_by_stars
    most_recent,      \* result of rank_by_recent_activity
    commits_map,      \* generate_activity_calendar: date -> count of daily_stats
    calendar_today,   \* the date datetime.now() reports to the calendar
    calendarPc,       \* position inside generate_activity_calendar
    days_data,        \* the counts of the days of the window, oldest first
    max_count,        \* the largest count of the window
    cell_opacity,     \* the opacity written for each day cell, in tenths
    daily_commits,    \* metrics.daily_stats.commits_per_day given to the streak card
    cardPc,           \* number of generate_streak_card calls made on the metrics
    first_card,       \* what the first call rendered
    second_card,      \* what the second call rendered
    metrics_exists,   \* whether data/metrics.json exists when main starts
    dashboardPc,      \* position inside generate_complete_dashboard.main
    chart_index,      \* number of chart configurations the loop has taken
    charts_generated, \* the file names of the charts that were written
    errors,           \* the error messages, one per failed chart
    chart_outcomes,   \* what each attempted chart did, in the order of the attempts
    exit_code,        \* what main returned (-1 while it runs)
    collect_method,   \* which of collect_commits, collect_pull_requests, collect_issues runs
    api_items,        \* what the API lists for each repository, in the order it yields it
    api_fail,         \* for each repository the item at which the API raises (0: never)
    collectorPc,      \* position inside the collection method
    repo_index,       \* number of repositories the loop has taken
    collected_data,   \* commits_data / prs_data / issues_data
    token,            \* the value of the access-token environment variable
    mainPc,           \* position inside daily_metrics.main
    collector_created,\* whether GitHubCollector(..) was constructed
    api_called,       \* whether any GitHub API call was made
    files,            \* the content of each snapshot file under data/
    files_before,     \* the content of each snapshot file when the run started
    write_log,        \* the file names save_json opened, in order
    failed_step,      \* the step that raised (0: none)
    failed_in,        \* whether the collection or save_json raised
    main_exit,        \* the exit status of the process (-1 while it runs)
    history,          \* monthly_snapshots of data/history.json
    history_month,    \* the month datetime.now() reports
    history_calls,    \* whether update_history has run on this history
    recorded_months,  \* every month that was ever in the history
    last_metrics,     \* the metrics of the latest update_history call
    last_month,       \* the month of the latest update_history call
    updated,          \* whether the latest call found the month in the history
    hero_prev,        \* prev_data read by generate_stats_hero
    comparison_curr,  \* the snapshot generate_performance_comparison reads as current
    tier_metrics,     \* the metrics handed to the tier renderers
    tier_done,        \* which of the tier computations have run
    tier_result,      \* what _calculate_tier returned, with the score it computed
    tier_card,        \* the tier, score and progress generate_tier_card shows
    streak_card_tier, \* the tier, score and progress generate_streak_card shows
    tier_simple,      \* the tier and score generate_tier_simple shows
    tier_compact      \* the tier and score generate_tier_compact shows

careerVars == <<entries, now, careerPc, periods, merged, next_period,
                total_months, total_experience>>

streakVars == <<commits, today, streakPhase, streak, commits_by_date, script_streak>>

rankVars == <<repos, rank_commits, rank_prs, rank_issues, limit, rankPc,
              top_projects, most_active, most_stars, most_recent>>

calendarVars == <<commits_map, calendar_today, calendarPc, days_data,
                  max_count, cell_opacity>>

cardVars == <<daily_commits, cardPc, first_card, second_card>>

dashboardVars == <<metrics_exists, dashboardPc, chart_index, charts_generated,
                   errors, chart_outcomes, exit_code>>

collectorVars == <<collect_method, api_items, api_fail, collectorPc, repo_index, collected_data>>

mainVars == <<token, mainPc, collector_created, api_called, files, files_before, write_log, failed_step, failed_in, main_exit>>

historyVars == <<history, history_month, history_calls, recorded_months,
                 last_metrics, last_month, updated, hero_prev, comparison_curr>>

tierVars == <<tier_metrics, tier_done, tier_result, tier_card, streak_card_tier, tier_simple, tier_compact>>

vars == <<streakVars, careerVars, rankVars, calendarVars, cardVars,
    dashboardVars,
    collectorVars,
    mainVars,
    historyVars,
    tierVars>>

\* the variables of the other components, which a component leaves alone
nonStreakVars == <<careerVars, rankVars, calendarVars, cardVars,
    dashboardVars,
    collectorVars,
    mainVars,
    historyVars,
    tierVars>>

nonCareerVars == <<streakVars, rankVars, calendarVars, cardVars,
    dashboardVars,
    collectorVars,
    mainVars,
    historyVars,
    tierVars>>

nonRankVars == <<streakVars, careerVars, calendarVars, cardVars,
    dashboardVars,
    collectorVars,
    mainVars,
    historyVars,
    tierVars>>

nonCalendarVars == <<streakVars, careerVars, rankVars, cardVars,
    dashboardVars,
    collectorVars,
    mainVars,
    historyVars,
    tierVars>>

nonCardVars == <<streakVars, careerVars, rankVars, calendarVars,
    dashboardVars,
    collectorVars,
    mainVars,
    historyVars,
    tierVars>>

nonDashboardVars == <<streakVars, careerVars, rankVars, calendarVars, cardVars,
    collectorVars,
    mainVars,
    historyVars,
    tierVars>>

nonCollectorVars == <<streakVars, careerVars, rankVars, calendarVars, cardVars, dashboardVars,
    mainVars,
    historyVars,
    tierVars>>

nonMainVars == <<streakVars, careerVars, rankVars, calendarVars, cardVars, dashboardVars, collectorVars,
    historyVars,
    tierVars>>

nonHistoryVars == <<streakVars, careerVars, rankVars, calendarVars, cardVars, dashboardVars, collectorVars, mainVars,
    tierVars>>

nonTierVars == <<streakVars, careerVars, rankVars, calendarVars, cardVars, dashboardVars, collectorVars, mainVars, historyVars>>

----------------------------------------------------------------------------
(* Bounds of the streak inputs *)

MaxDay == 10
MaxCommits == 4

Days == 1..MaxDay

\* today is the last day of the window or the day before it (so a commit
\* may carry tomorrow's date, as a skewed author clock produces).
Todays == {MaxDay - 1, MaxDay}

CommitRecords == [date : Days]

BoundedSeq(S, n) == UNION {[1..k -> S] : k \in 0..n}

----------------------------------------------------------------------------
(* Generic helpers standing for Python built-ins *)

Max(a, b) == IF a >= b THEN a ELSE b

SetMin(S) == CHOOSE x \in S : \A y \in S : x <= y

SetMax(S) == CHOOSE x \in S : \A y \in S : x >= y

RECURSIVE SortedSet(_)
\* sorted(set(..)): the ascending list of the distinct elements
SortedSet(S) ==
    IF S = {} THEN <<>>
    ELSE LET m == SetMin(S) IN <<m>> \o SortedSet(S \ {m})

----------------------------------------------------------------------------
(* MetricsProcessor.calculate_activity_streak *)

\* datetime.fromisoformat(c['date']).date(): the calendar date of the timestamp
CommitDate(c) == c.date

\* unique_dates = sorted(set(dates))
UniqueDates(cs) == SortedSet({CommitDate(cs[i]) : i \in 1..Len(cs)})

\* (today - unique_dates[-1]).days <= 1
ActiveRecentlyLoose(t, last) == t - last <= 2

ActiveRecently(t, last) == t - last <= 1

RECURSIVE CurrentWalkNoBreak(_, _, _)
CurrentWalkNoBreak(u, i, cur) ==
    IF i < 2 THEN cur
    ELSE IF u[i] - u[i-1] = 1
         THEN CurrentWalkNoBreak(u, i - 1, cur + 1)
         ELSE CurrentWalkNoBreak(u, i - 1, cur)

RECURSIVE CurrentWalk(_, _, _)
\* for i in range(len(unique_dates) - 1, 0, -1): count while diff == 1, else break
\* (i is the 1-based index of unique_dates[i] of the code's 0-based list)
CurrentWalk(u, i, cur) ==
    IF i < 2 THEN cur
    ELSE IF u[i] - u[i-1] = 1
         THEN CurrentWalk(u, i - 1, cur + 1)
         ELSE cur

RECURSIVE LongestPassNoFinalMax(_, _, _, _)
LongestPassNoFinalMax(u, i, temp, longest) ==
    IF i > Len(u) THEN longest
    ELSE IF u[i] - u[i-1] = 1
         THEN LongestPassNoFinalMax(u, i + 1, temp + 1, Max(longest, temp + 1))
         ELSE LongestPassNoFinalMax(u, i + 1, 1, longest)

RECURSIVE LongestPass(_, _, _, _)
\* for i in range(1, len(unique_dates)): temp_streak += 1 / reset to 1, track
\* the maximum; after the loop longest_streak = max(longest_streak, temp_streak)
LongestPass(u, i, temp, longest) ==
    IF i > Len(u) THEN Max(longest, temp)
    ELSE IF u[i] - u[i-1] = 1
         THEN LongestPass(u, i + 1, temp + 1, Max(longest, temp + 1))
         ELSE LongestPass(u, i + 1, 1, longest)

ProcessorStreakNoEmptyCheck(cs, t) ==
    LET u == UniqueDates(cs) IN
    [current |-> IF Len(u) > 0 /\ ActiveRecently(t, u[Len(u)])
                 THEN CurrentWalk(u, Len(u), 1)
                 ELSE 0,
     longest |-> LongestPass(u, 2, 1, 0)]

\* if not self.commits: return {0, 0}; otherwise the two passes over unique_dates
ProcessorStreak(cs, t) ==
    IF cs = <<>> THEN [current |-> 0, longest |-> 0]
    ELSE LET u == UniqueDates(cs) IN
         [current |-> IF Len(u) > 0 /\ ActiveRecently(t, u[Len(u)])
                      THEN CurrentWalk(u, Len(u), 1)
                      ELSE 0,
          longest |-> LongestPass(u, 2, 1, 0)]

----------------------------------------------------------------------------
(* daily_metrics: collect_metrics and calculate_activity_streak *)

LookbackDays == 365

\* commits_by_date[commit['date'][:10]] += 1 for every collected commit
CommitsByDate(cs) ==
    [d \in {cs[i].date : i \in 1..Len(cs)} |->
        Cardinality({i \in 1..Len(cs) : cs[i].date = d})]

\* date_str in commits_by_date and commits_by_date[date_str] > 0
ActiveOn(cbd, d) == d \in DOMAIN cbd /\ cbd[d] > 0

RECURSIVE ScriptLoop(_, _, _, _, _, _)
\* for i in range(365): one iteration per day, from today backwards.
\* Once check_date is before every key of the map, each remaining iteration
\* takes the else branch, which only sets temp_streak = 0: the loop's result
\* is then fixed and the remaining iterations are folded into one step.
ScriptLoop(cbd, i, check_date, cur, temp, longest) ==
    IF i >= LookbackDays THEN [current |-> cur, longest |-> longest]
    ELSE IF \A d \in DOMAIN cbd : d > check_date
         THEN [current |-> cur, longest |-> longest]
    ELSE IF ActiveOn(cbd, check_date)
         THEN ScriptLoop(cbd, i + 1, check_date - 1,
                         IF cur = temp THEN cur + 1 ELSE cur,
                         temp + 1, Max(longest, temp + 1))
         ELSE ScriptLoop(cbd, i + 1, check_date - 1, cur, 0, longest)

ScriptStreak(cbd, t) ==
    IF DOMAIN cbd = {} THEN [current |-> 0, longest |-> 0]
    ELSE ScriptLoop(cbd, 0, t, 0, 0, 0)

----------------------------------------------------------------------------
(* CareerTimelineGenerator: dates *)

MaxEntries == 3

\* the "YYYY-MM" strings of the sample career files, as <<year, month>>
MonthSample == {<<2020, 1>>, <<2020, 12>>, <<2021, 6>>, <<2021, 12>>, <<2022, 6>>}

\* values datetime.now() takes: some moment after the first instant of a month
NowSample == {[year |-> 2022, month |-> 6, late |-> 1],
              [year |-> 2022, month |-> 9, late |-> 1]}

\* a date string of career.json: "YYYY-MM" or the sentinel "present"
YearMonth(y, m) == [text |-> "ym", year |-> y, month |-> m]

Present == [text |-> "present", year |-> 0, month |-> 0]

\* _parse_date: "present" -> datetime.now(); "YYYY-MM" -> the first instant
\* of that month (late = 0; late = 1 marks a later moment of the month)
ParseDate(date_str, n) ==
    IF date_str.text = "present" THEN n
    ELSE [year |-> date_str.year, month |-> date_str.month, late |-> 0]

\* datetime comparison
DtLt(a, b) ==
    \/ a.year < b.year
    \/ a.year = b.year /\ a.month < b.month
    \/ a.year = b.year /\ a.month = b.month /\ a.late < b.late

DtLe(a, b) == a = b \/ DtLt(a, b)

DtMaxTakesCurrent(a, b) == b

\* max(last_end, current_end)
DtMax(a, b) == IF DtLt(a, b) THEN b ELSE a

\* relativedelta(end, start): whole months between the two datetimes, split
\* into years and months of the same sign
RelativeDelta(end, start) ==
    LET raw == (end.year - start.year) * 12 + (end.month - start.month)
        whole == IF DtLe(start, end)
                 THEN (IF end.late < start.late THEN raw - 1 ELSE raw)
                 ELSE (IF end.late > start.late THEN raw + 1 ELSE raw)
    IN  IF whole >= 0
        THEN [years |-> whole \div 12, months |-> whole % 12]
        ELSE [years |-> -((-whole) \div 12), months |-> -((-whole) % 12)]

PeriodMonthsInclusive(start, end) ==
    RelativeDelta(end, start).years * 12 + RelativeDelta(end, start).months + 1

\* delta.years * 12 + delta.months
PeriodMonths(start, end) ==
    RelativeDelta(end, start).years * 12 + RelativeDelta(end, start).months

----------------------------------------------------------------------------
(* CareerTimelineGenerator._calculate_total_experience *)

RECURSIVE WorkPeriodsAnyType(_, _)
WorkPeriodsAnyType(es, n) ==
    IF es = <<>> THEN <<>>
    ELSE LET e == Head(es) IN
         <<[start |-> ParseDate(e.date_start, n),
            end |-> ParseDate(e.date_end, n)]>> \o WorkPeriodsAnyType(Tail(es), n)

RECURSIVE WorkPeriods(_, _)
\* for entry in entries: if entry.get('type') == 'work': periods.append(..)
WorkPeriods(es, n) ==
    IF es = <<>> THEN <<>>
    ELSE LET e == Head(es) IN
         (IF e.type = "work"
          THEN <<[start |-> ParseDate(e.date_start, n),
                  end |-> ParseDate(e.date_end, n)]>>
          ELSE <<>>) \o WorkPeriods(Tail(es), n)

RECURSIVE InsertByStart(_, _)
\* place p after every element whose start is <= p's start (stable)
InsertByStart(sorted, p) ==
    IF sorted = <<>> THEN <<p>>
    ELSE IF DtLe(Head(sorted).start, p.start)
         THEN <<Head(sorted)>> \o InsertByStart(Tail(sorted), p)
         ELSE <<p>> \o sorted

SortByStartOmitted(ps) == ps

RECURSIVE SortByStart(_)
\* periods.sort(key=lambda x: x[0]): stable ascending sort by start
SortByStart(ps) ==
    IF ps = <<>> THEN <<>>
    ELSE InsertByStart(SortByStart(SubSeq(ps, 1, Len(ps) - 1)), ps[Len(ps)])

StartsBeforeEndStrict(current_start, last_end) == DtLt(current_start, last_end)

\* current_start <= last_end
StartsBeforeEnd(current_start, last_end) == DtLe(current_start, last_end)

\* one iteration of the fold over periods[1:]
MergeOne(m, p) ==
    LET last == m[Len(m)] IN
    IF StartsBeforeEnd(p.start, last.end)
    THEN [m EXCEPT ![Len(m)] = [start |-> last.start, end |-> DtMax(last.end, p.end)]]
    ELSE Append(m, p)

RECURSIVE SumMonths(_)
\* total_months += delta.years * 12 + delta.months, over merged
SumMonths(m) ==
    IF m = <<>> THEN 0
    ELSE PeriodMonths(Head(m).start, Head(m).end) + SumMonths(Tail(m))

FormatExperienceZeroYears(total) ==
    LET years == total \div 12
        months == total % 12
        y == IF years >= 0 THEN <<ToString(years) \o "y">> ELSE <<>>
        mo == IF months > 0 THEN <<ToString(months) \o "m">> ELSE <<>>
        parts == y \o mo
    IN  IF Len(parts) = 2 THEN parts[1] \o " " \o parts[2]
        ELSE IF Len(parts) = 1 THEN parts[1]
        ELSE "&lt; 1m"

\* years = total // 12, months = total % 12, the parts joined by a space
FormatExperience(total) ==
    LET years == total \div 12
        months == total % 12
        y == IF years > 0 THEN <<ToString(years) \o "y">> ELSE <<>>
        mo == IF months > 0 THEN <<ToString(months) \o "m">> ELSE <<>>
        parts == y \o mo
    IN  IF Len(parts) = 2 THEN parts[1] \o " " \o parts[2]
        ELSE IF Len(parts) = 1 THEN parts[1]
        ELSE "&lt; 1m"

----------------------------------------------------------------------------
(* RankingsProcessor: inputs *)

MaxRepos == 3
MaxStarRepos == 4
MaxEvents == 3
MaxLimit == 3
MaxPushTick == 4
TicksPerDay == 2

\* repository names; the same name may occur under two owners
RepoNames == {"a", "b"}

StarSample == {0, 5, 12}

\* a pushed_at ISO string: the wall-clock time it spells, in ticks, and whether
\* it ends in a UTC offset (timezone-aware) or not (naive)
PushedAt(w, tz) == [none |-> FALSE, wall |-> w, aware |-> tz]

\* pushed_at = None
NoPush == [none |-> TRUE, wall |-> 0, aware |-> FALSE]

PushSample == {NoPush} \cup {PushedAt(w, tz) : w \in 1..MaxPushTick, tz \in BOOLEAN}

\* the values datetime.now(timezone.utc) takes while the recency loop runs
ClockSample == (MaxPushTick + 1)..(MaxPushTick + 3)

\* collected events: a commit, pull request or issue and its repo name ("x"
\* is a repository that is not in the repository list)
EventSample ==
    {[kind |-> "commit", repo |-> "a"], [kind |-> "commit", repo |-> "b"],
     [kind |-> "commit", repo |-> "x"], [kind |-> "pr", repo |-> "a"],
     [kind |-> "pr", repo |-> "b"], [kind |-> "issue", repo |-> "a"]}

Repo(id, n, st, pa) == [full_name |-> id, name |-> n, stars |-> st, pushed_at |-> pa]

RECURSIVE ReposOfKind(_, _)
\* the repo names of the events of one kind, in collection order
ReposOfKind(ev, k) ==
    IF ev = <<>> THEN <<>>
    ELSE (IF Head(ev).kind = k THEN <<Head(ev).repo>> ELSE <<>>)
         \o ReposOfKind(Tail(ev), k)

----------------------------------------------------------------------------
(* RankingsProcessor: the ranking methods *)

Min(a, b) == IF a <= b THEN a ELSE b

SliceOneMore(ranked, lim) ==
    IF lim >= 0 THEN SubSeq(ranked, 1, Min(lim + 1, Len(ranked)))
    ELSE SubSeq(ranked, 1, Max(0, Len(ranked) + lim))

\* ranked[:limit]
Slice(ranked, lim) ==
    IF lim >= 0 THEN SubSeq(ranked, 1, Min(lim, Len(ranked)))
    ELSE SubSeq(ranked, 1, Max(0, Len(ranked) + lim))

RECURSIVE InsertDescending(_, _)
\* place e after every element whose key is >= e's key
InsertDescending(sorted, e) ==
    IF sorted = <<>> THEN <<e>>
    ELSE IF Head(sorted).key >= e.key
         THEN <<Head(sorted)>> \o InsertDescending(Tail(sorted), e)
         ELSE <<e>> \o sorted

RECURSIVE InsertAscending(_, _)
InsertAscending(sorted, e) ==
    IF sorted = <<>> THEN <<e>>
    ELSE IF Head(sorted).key <= e.key
         THEN <<Head(sorted)>> \o InsertAscending(Tail(sorted), e)
         ELSE <<e>> \o sorted

RECURSIVE Reversed(_)
Reversed(l) == IF l = <<>> THEN <<>> ELSE Reversed(Tail(l)) \o <<Head(l)>>

RECURSIVE SortAscending(_)
SortAscending(l) ==
    IF l = <<>> THEN <<>>
    ELSE InsertAscending(SortAscending(SubSeq(l, 1, Len(l) - 1)), l[Len(l)])

\* an ascending stable sort followed by a reversal: ties come out reversed
SortDescendingReversal(l) == Reversed(SortAscending(l))

RECURSIVE SortDescending(_)
\* list.sort(key=.., reverse=True): descending, and stable (elements with
\* equal keys keep their order); key is the field the lambda reads
SortDescending(l) ==
    IF l = <<>> THEN <<>>
    ELSE InsertDescending(SortDescending(SubSeq(l, 1, Len(l) - 1)), l[Len(l)])

RECURSIVE CountOf(_, _)
\* the defaultdict counter of one repo name after the loop over the events
CountOf(names, n) ==
    IF names = <<>> THEN 0
    ELSE (IF Head(names) = n THEN 1 ELSE 0) + CountOf(Tail(names), n)

ActivityScoreNoIssues(cs, ps, is, n) == CountOf(cs, n) + CountOf(ps, n)

\* total_score = scores['commits'] + scores['prs'] + scores['issues']
ActivityScore(cs, ps, is, n) == CountOf(cs, n) + CountOf(ps, n) + CountOf(is, n)

RECURSIVE ActivityRanked(_, _, _, _)
\* the loop over self.repos: one entry per repo with total_score > 0
ActivityRanked(rs, cs, ps, is) ==
    IF rs = <<>> THEN <<>>
    ELSE LET r == Head(rs)
             total_score == ActivityScore(cs, ps, is, r.name)
         IN  (IF total_score > 0
              THEN <<[name |-> r.name, full_name |-> r.full_name,
                      score |-> total_score, key |-> total_score]>>
              ELSE <<>>) \o ActivityRanked(Tail(rs), cs, ps, is)

RankByActivity(rs, cs, ps, is, lim) ==
    Slice(SortDescending(ActivityRanked(rs, cs, ps, is)), lim)

HasStarsOrZero(r) == r.stars >= 0

\* if repo['stars'] > 0
HasStars(r) == r.stars > 0

RECURSIVE Starred(_)
Starred(rs) ==
    IF rs = <<>> THEN <<>>
    ELSE LET r == Head(rs) IN
         (IF HasStars(r)
          THEN <<[name |-> r.name, full_name |-> r.full_name,
                  stars |-> r.stars, key |-> r.stars]>>
          ELSE <<>>) \o Starred(Tail(rs))

RankByStars(rs, lim) == Slice(SortDescending(Starred(rs)), lim)

RECURSIVE CommitsRanked(_, _)
CommitsRanked(rs, cs) ==
    IF rs = <<>> THEN <<>>
    ELSE LET r == Head(rs)
             count == CountOf(cs, r.name)
         IN  (IF count > 0
              THEN <<[name |-> r.name, full_name |-> r.full_name,
                      commits |-> count, key |-> count]>>
              ELSE <<>>) \o CommitsRanked(Tail(rs), cs)

RankByCommits(rs, cs, lim) == Slice(SortDescending(CommitsRanked(rs, cs)), lim)

\* the order of two pushed_at strings: by the wall-clock time they spell, and
\* at equal wall-clock time the naive string, a prefix of the aware one, first
LastPushKey(pa) == pa.wall * 2 + (IF pa.aware THEN 1 ELSE 0)

\* (now_naive - pushed_naive).days: both tzinfo are dropped without any
\* conversion, and timedelta.days rounds towards minus infinity
DaysAgo(now_utc, pa) == (now_utc - pa.wall) \div TicksPerDay

RECURSIVE RecentEntries(_, _, _)
\* the loop over self.repos; reads[i] is what datetime.now(timezone.utc)
\* returns in the iteration of the i-th repository
RecentEntries(rs, reads, i) ==
    IF i > Len(rs) THEN <<>>
    ELSE LET r == rs[i] IN
         (IF ~r.pushed_at.none
          THEN <<[name |-> r.name, full_name |-> r.full_name,
                  last_push |-> r.pushed_at,
                  days_ago |-> DaysAgo(reads[i], r.pushed_at),
                  key |-> LastPushKey(r.pushed_at)]>>
          ELSE <<>>) \o RecentEntries(rs, reads, i + 1)

RankByRecentActivity(rs, reads, lim) ==
    Slice(SortDescending(RecentEntries(rs, reads, 1)), lim)

----------------------------------------------------------------------------
(* The career state machine *)

WorkEntries ==
    {e \in [type : {"work"},
            date_start : {YearMonth(d[1], d[2]) : d \in MonthSample},
            date_end : {YearMonth(d[1], d[2]) : d \in MonthSample} \cup {Present}] :
        \A n \in NowSample : DtLe(ParseDate(e.date_start, n), ParseDate(e.date_end, n))}

\* an education entry; its dates are never read
EducationEntries ==
    {[type |-> "education", date_start |-> YearMonth(2020, 1),
      date_end |-> YearMonth(2021, 12)]}

CareerEntries == WorkEntries \cup EducationEntries

\* the value of a streak that has not been computed
NoStreak == [current |-> -1, longest |-> -1]

NoDatetime == [year |-> 0, month |-> 0, late |-> 0]

DashboardIdle ==
    /\ metrics_exists = FALSE
    /\ dashboardPc = "off"
    /\ chart_index = 0
    /\ charts_generated = <<>>
    /\ errors = <<>>
    /\ chart_outcomes = <<>>
    /\ exit_code = -1

CollectorIdle ==
    /\ collect_method = "none"
    /\ api_items = <<>>
    /\ api_fail = <<>>
    /\ collectorPc = "off"
    /\ repo_index = 0
    /\ collected_data = <<>>

MainIdle ==
    /\ token = "absent"
    /\ mainPc = "off"
    /\ collector_created = FALSE
    /\ api_called = FALSE
    /\ files = <<>>
    /\ files_before = <<>>
    /\ write_log = <<>>
    /\ failed_step = 0
    /\ failed_in = "none"
    /\ main_exit = -1

HistoryIdle ==
    /\ history = <<>>
    /\ history_month = 0
    /\ history_calls = FALSE
    /\ recorded_months = {}
    /\ last_metrics = 0
    /\ last_month = 0
    /\ updated = FALSE
    /\ hero_prev = <<>>
    /\ comparison_curr = <<>>

TierIdle ==
    /\ tier_metrics = <<>>
    /\ tier_done = {"off"}
    /\ tier_result = <<>>
    /\ tier_card = <<>>
    /\ streak_card_tier = <<>>
    /\ tier_simple = <<>>
    /\ tier_compact = <<>>

CalendarIdle ==
    /\ commits_map = <<>>
    /\ calendar_today = 0
    /\ calendarPc = "done"
    /\ days_data = <<>>
    /\ max_count = 0
    /\ cell_opacity = <<>>

CardIdle ==
    /\ daily_commits = <<>>
    /\ cardPc = 2
    /\ first_card = <<>>
    /\ second_card = <<>>

CareerIdle ==
    /\ entries = <<>>
    /\ now = NoDatetime
    /\ careerPc = "idle"
    /\ periods = <<>>
    /\ merged = <<>>
    /\ next_period = 0
    /\ total_months = 0
    /\ total_experience = ""

RankIdle ==
    /\ repos = <<>>
    /\ rank_commits = <<>>
    /\ rank_prs = <<>>
    /\ rank_issues = <<>>
    /\ limit = 0
    /\ rankPc = 4
    /\ top_projects = <<>>
    /\ most_active = <<>>
    /\ most_stars = <<>>
    /\ most_recent = <<>>

StreakIdle ==
    /\ commits = <<>>
    /\ today = 0
    /\ streakPhase = {"processor", "script"}
    /\ streak = NoStreak
    /\ commits_by_date = <<>>
    /\ script_streak = NoStreak

CareerInit ==
    /\ entries \in BoundedSeq(CareerEntries, MaxEntries)
    /\ now \in NowSample
    /\ careerPc = "start"
    /\ periods = <<>>
    /\ merged = <<>>
    /\ next_period = 0
    /\ total_months = 0
    /\ total_experience = ""
    /\ StreakIdle
    /\ RankIdle
    /\ CalendarIdle
    /\ CardIdle
    /\ DashboardIdle
    /\ CollectorIdle
    /\ MainIdle
    /\ HistoryIdle
    /\ TierIdle

\* lines 76-94: the early returns, the collection of the work periods, the
\* sort and the first merged period
CollectPeriods ==
    /\ careerPc = "start"
    /\ LET ps == WorkPeriods(entries, now) IN
       IF entries = <<>> \/ ps = <<>>
       THEN /\ total_experience' = "0y"
            /\ careerPc' = "done"
            /\ periods' = ps
            /\ UNCHANGED <<merged, next_period>>
       ELSE /\ periods' = SortByStart(ps)
            /\ merged' = <<SortByStart(ps)[1]>>
            /\ next_period' = 2
            /\ careerPc' = "merge"
            /\ UNCHANGED total_experience
    /\ UNCHANGED <<entries, now, total_months>>
    /\ UNCHANGED nonCareerVars

\* lines 95-104: one iteration of the merge loop
MergeStep ==
    /\ careerPc = "merge"
    /\ next_period <= Len(periods)
    /\ merged' = MergeOne(merged, periods[next_period])
    /\ next_period' = next_period + 1
    /\ UNCHANGED <<entries, now, careerPc, periods, total_months, total_experience>>
    /\ UNCHANGED nonCareerVars

\* lines 106-122: the sum over the merged periods and the formatting
SumExperience ==
    /\ careerPc = "merge"
    /\ next_period > Len(periods)
    /\ total_months' = SumMonths(merged)
    /\ total_experience' = FormatExperience(SumMonths(merged))
    /\ careerPc' = "done"
    /\ UNCHANGED <<entries, now, periods, merged, next_period>>
    /\ UNCHANGED nonCareerVars

CareerNext == CollectPeriods \/ MergeStep \/ SumExperience

SpecCareer == CareerInit /\ [][CareerNext]_vars

----------------------------------------------------------------------------
(* The streak state machine: one run of each computation over one input *)

StreakInit ==
    /\ commits \in BoundedSeq(CommitRecords, MaxCommits)
    /\ today \in Todays
    /\ streakPhase = {}
    /\ streak = NoStreak
    /\ commits_by_date = <<>>
    /\ script_streak = NoStreak
    /\ CareerIdle
    /\ RankIdle
    /\ CalendarIdle
    /\ CardIdle
    /\ DashboardIdle
    /\ CollectorIdle
    /\ MainIdle
    /\ HistoryIdle
    /\ TierIdle

\* MetricsProcessor.generate_metrics -> calculate_activity_streak
CalculateActivityStreak ==
    /\ "processor" \notin streakPhase
    /\ streak' = ProcessorStreak(commits, today)
    /\ streakPhase' = streakPhase \cup {"processor"}
    /\ UNCHANGED <<commits, today, commits_by_date, script_streak>>
    /\ UNCHANGED nonStreakVars

\* daily_metrics.collect_metrics: group the commits by date, then the streak
CollectMetricsStreak ==
    /\ "script" \notin streakPhase
    /\ commits_by_date' = CommitsByDate(commits)
    /\ script_streak' = ScriptStreak(CommitsByDate(commits), today)
    /\ streakPhase' = streakPhase \cup {"script"}
    /\ UNCHANGED <<commits, today, streak>>
    /\ UNCHANGED nonStreakVars

StreakNext == CalculateActivityStreak \/ CollectMetricsStreak

SpecStreak == StreakInit /\ [][StreakNext]_vars

----------------------------------------------------------------------------
(* The rankings state machine: generate_rankings over one collected input *)

\* repository lists whose stars vary
StarRepoListsOf(k) ==
    {[i \in 1..k |-> Repo(i, "a", st[i], NoPush)] : st \in [1..k -> StarSample]}

\* repository lists whose names vary (a name may repeat)
NamedRepoLists(k) ==
    {[i \in 1..k |-> Repo(i, nm[i], 0, NoPush)] : nm \in [1..k -> RepoNames]}

\* repository lists whose pushed_at vary
PushedRepoLists(k) ==
    {[i \in 1..k |-> Repo(i, "a", 0, pa[i])] : pa \in [1..k -> PushSample]}

RankInit ==
    /\ \/ /\ repos \in UNION {StarRepoListsOf(k) : k \in 0..MaxStarRepos}
          /\ rank_commits = <<>> /\ rank_prs = <<>> /\ rank_issues = <<>>
       \/ /\ repos \in UNION {NamedRepoLists(k) : k \in 0..MaxRepos}
          /\ \E ev \in BoundedSeq(EventSample, MaxEvents) :
                /\ rank_commits = ReposOfKind(ev, "commit")
                /\ rank_prs = ReposOfKind(ev, "pr")
                /\ rank_issues = ReposOfKind(ev, "issue")
       \/ /\ repos \in UNION {PushedRepoLists(k) : k \in 0..MaxRepos}
          /\ rank_commits = <<>> /\ rank_prs = <<>> /\ rank_issues = <<>>
    /\ limit \in 0..MaxLimit
    /\ rankPc = 0
    /\ top_projects = <<>>
    /\ most_active = <<>>
    /\ most_stars = <<>>
    /\ most_recent = <<>>
    /\ StreakIdle
    /\ CareerIdle
    /\ CalendarIdle
    /\ CardIdle
    /\ DashboardIdle
    /\ CollectorIdle
    /\ MainIdle
    /\ HistoryIdle
    /\ TierIdle

\* 'top_projects': self.rank_by_activity(limit)
RankActivity ==
    /\ rankPc = 0
    /\ top_projects' = RankByActivity(repos, rank_commits, rank_prs, rank_issues, limit)
    /\ rankPc' = 1
    /\ UNCHANGED <<repos, rank_commits, rank_prs, rank_issues, limit,
                   most_active, most_stars, most_recent>>
    /\ UNCHANGED nonRankVars

\* 'most_active': self.rank_by_commits(limit)
RankCommits ==
    /\ rankPc = 1
    /\ most_active' = RankByCommits(repos, rank_commits, limit)
    /\ rankPc' = 2
    /\ UNCHANGED <<repos, rank_commits, rank_prs, rank_issues, limit,
                   top_projects, most_stars, most_recent>>
    /\ UNCHANGED nonRankVars

\* 'most_stars': self.rank_by_stars(limit)
RankStars ==
    /\ rankPc = 2
    /\ most_stars' = RankByStars(repos, limit)
    /\ rankPc' = 3
    /\ UNCHANGED <<repos, rank_commits, rank_prs, rank_issues, limit,
                   top_projects, most_active, most_recent>>
    /\ UNCHANGED nonRankVars

\* 'most_recent': self.rank_by_recent_activity(limit); the clock is read once
\* per repository of the loop and never runs backwards
RankRecent ==
    /\ rankPc = 3
    /\ \E reads \in [1..Len(repos) -> ClockSample] :
          /\ \A i, j \in 1..Len(repos) : i <= j => reads[i] <= reads[j]
          /\ most_recent' = RankByRecentActivity(repos, reads, limit)
    /\ rankPc' = 4
    /\ UNCHANGED <<repos, rank_commits, rank_prs, rank_issues, limit,
                   top_projects, most_active, most_stars>>
    /\ UNCHANGED nonRankVars

RankNext == RankActivity \/ RankCommits \/ RankStars \/ RankRecent

SpecRankings == RankInit /\ [][RankNext]_vars

----------------------------------------------------------------------------
(* ActivityCalendarGenerator.generate_activity_calendar                     *)
(*                                                                          *)
(* The calendar shows a window of consecutive days ending today (30 in the  *)
(* program, CalendarDays here).  commits_map is the dictionary the method   *)
(* builds from daily_stats: a date that daily_stats does not list has no    *)
(* key and reads as 0.  Opacities are written in tenths (1.0 is 10).        *)

CalendarDays == 3
MaxCount == 5

\* the dates daily_stats may list: the window of either today
CalendarDates == 1..(CalendarDays + 1)

CalendarTodays == {CalendarDays, CalendarDays + 1}

CommitsMaps == UNION {[D -> 0..MaxCount] : D \in SUBSET CalendarDates}

\* commits_map.get(date_str, 0)
CountOn(map, d) == IF d \in DOMAIN map THEN map[d] ELSE 0

\* max(.., default=0) over a list of counts
SeqMax(counts) ==
    IF Len(counts) = 0 THEN 0 ELSE SetMax({counts[i] : i \in 1..Len(counts)})

GetActivityLevelColorStrictPeak(count, mx) ==
    IF count = 0 THEN [color |-> "border", opacity |-> 2]
    ELSE IF mx = 0 THEN [color |-> "success", opacity |-> 3]
    ELSE IF 10 * count > 8 * mx THEN [color |-> "success", opacity |-> 10]
    ELSE IF 10 * count >= 5 * mx THEN [color |-> "success", opacity |-> 7]
    ELSE IF 100 * count >= 25 * mx THEN [color |-> "accent", opacity |-> 6]
    ELSE [color |-> "accent", opacity |-> 4]

\* _get_activity_level_color(count, max_count).  ratio = count / max_count is
\* compared with 0.8, 0.5 and 0.25; for integer counts of this size the
\* double nearest to the quotient is on the same side of the threshold as
\* the exact quotient, so the comparison is made on integers.
GetActivityLevelColor(count, mx) ==
    IF count = 0 THEN [color |-> "border", opacity |-> 2]
    ELSE IF mx = 0 THEN [color |-> "success", opacity |-> 3]
    ELSE IF 10 * count >= 8 * mx THEN [color |-> "success", opacity |-> 10]
    ELSE IF 10 * count >= 5 * mx THEN [color |-> "success", opacity |-> 7]
    ELSE IF 100 * count >= 25 * mx THEN [color |-> "accent", opacity |-> 6]
    ELSE [color |-> "accent", opacity |-> 4]

\* the counts of the window, oldest day first: for i in range(29, -1, -1)
DaysData(map, t) ==
    [i \in 1..CalendarDays |-> CountOn(map, t - (CalendarDays - i))]

CalendarInit ==
    /\ commits_map \in CommitsMaps
    /\ calendar_today \in CalendarTodays
    /\ calendarPc = "days"
    /\ days_data = <<>>
    /\ max_count = 0
    /\ cell_opacity = <<>>
    /\ StreakIdle
    /\ CareerIdle
    /\ RankIdle
    /\ CardIdle
    /\ DashboardIdle
    /\ CollectorIdle
    /\ MainIdle
    /\ HistoryIdle
    /\ TierIdle

\* lines 129-140: the window is filled, absent dates with zero
CalendarFillDays ==
    /\ calendarPc = "days"
    /\ days_data' = DaysData(commits_map, calendar_today)
    /\ calendarPc' = "stats"
    /\ UNCHANGED <<commits_map, calendar_today, max_count, cell_opacity>>
    /\ UNCHANGED nonCalendarVars

\* lines 143-149: the statistics of the window
CalendarStatistics ==
    /\ calendarPc = "stats"
    /\ max_count' = SeqMax(days_data)
    /\ calendarPc' = "cells"
    /\ UNCHANGED <<commits_map, calendar_today, days_data, cell_opacity>>
    /\ UNCHANGED nonCalendarVars

\* lines 252-280: one cell per day, coloured by _get_activity_level_color
CalendarCells ==
    /\ calendarPc = "cells"
    /\ cell_opacity' =
           [i \in 1..Len(days_data) |->
               GetActivityLevelColor(days_data[i], max_count).opacity]
    /\ calendarPc' = "done"
    /\ UNCHANGED <<commits_map, calendar_today, days_data, max_count>>
    /\ UNCHANGED nonCalendarVars

CalendarNext == CalendarFillDays \/ CalendarStatistics \/ CalendarCells

SpecCalendar == CalendarInit /\ [][CalendarNext]_vars

----------------------------------------------------------------------------
(* EnhancedSVGRenderer.generate_streak_card, called twice on one metrics    *)
(*                                                                          *)
(* Only the sparkline of the card reads commits_per_day.  The window is 30  *)
(* days in the program, SparkDays here.  A card is what the sparkline       *)
(* writes: a bar per day (height in whole percent of the peak, opacity in   *)
(* tenths), the total and the peak; the average is the total over 30.       *)

SparkDays == 2

\* random.randint(0, 5)
RandMax == 5

CardCountSample == {0, 3}

CardDay == [count : CardCountSample]

\* [{'count': random.randint(0, 5)} for _ in range(30)]: any of these lists
Simulated == [1..SparkDays -> [count : 0..RandMax]]

\* daily_commits[-30:] if len(daily_commits) >= 30 else daily_commits
Last30(dc) ==
    IF Len(dc) >= SparkDays THEN SubSeq(dc, Len(dc) - SparkDays + 1, Len(dc))
    ELSE dc

RECURSIVE SeqSum(_)
SeqSum(counts) ==
    IF Len(counts) = 0 THEN 0 ELSE Head(counts) + SeqSum(Tail(counts))

\* the opacity of a sparkline bar: commits against 0.3 and 0.7 of the peak
SparkOpacity(c, mx) ==
    IF c = 0 THEN 2
    ELSE IF 10 * c <= 3 * mx THEN 4
    ELSE IF 10 * c <= 7 * mx THEN 7
    ELSE 10

\* lines 695-731
Sparkline(last_30) ==
    LET counts == [i \in 1..Len(last_30) |-> last_30[i].count]
        peak == IF SeqMax(counts) = 0 THEN 1 ELSE SeqMax(counts)
    IN  [bars |-> [i \in 1..Len(counts) |->
                      [height |-> (counts[i] * 100) \div peak,
                       opacity |-> SparkOpacity(counts[i], peak)]],
         total |-> SeqSum(counts),
         peak |-> peak]

\* lines 601-606 and the sparkline: sim is what the random generator yields
\* when the metrics hold fewer days than the window
GenerateStreakCard(dc, sim) ==
    Sparkline(Last30(IF Len(dc) < SparkDays THEN sim ELSE dc))

CardInit ==
    /\ daily_commits \in BoundedSeq(CardDay, SparkDays + 1)
    /\ cardPc = 0
    /\ first_card = <<>>
    /\ second_card = <<>>
    /\ StreakIdle
    /\ CareerIdle
    /\ RankIdle
    /\ CalendarIdle
    /\ DashboardIdle
    /\ CollectorIdle
    /\ MainIdle
    /\ HistoryIdle
    /\ TierIdle

RenderFirst ==
    /\ cardPc = 0
    /\ \E sim \in Simulated : first_card' = GenerateStreakCard(daily_commits, sim)
    /\ cardPc' = 1
    /\ UNCHANGED <<daily_commits, second_card>>
    /\ UNCHANGED nonCardVars

RenderSecond ==
    /\ cardPc = 1
    /\ \E sim \in Simulated : second_card' = GenerateStreakCard(daily_commits, sim)
    /\ cardPc' = 2
    /\ UNCHANGED <<daily_commits, first_card>>
    /\ UNCHANGED nonCardVars

CardNext == RenderFirst \/ RenderSecond

SpecStreakCard == CardInit /\ [][CardNext]_vars

----------------------------------------------------------------------------
(* generate_complete_dashboard.main                                         *)
(*                                                                          *)
(* A chart generator either returns the path of a file it wrote, returns a  *)
(* path whose file is empty or does not exist, or raises an Exception.      *)

\* chart_configs: display name and output file of each chart, in order
ChartConfigs ==
    << [name |-> "Stats Hero", filename |-> "stats_hero.svg"],
       [name |-> "Language Chart", filename |-> "language_chart.svg"],
       [name |-> "Performance Comparison", filename |-> "performance_comparison.svg"],
       [name |-> "Featured Projects", filename |-> "featured_projects.svg"],
       [name |-> "Activity Calendar", filename |-> "activity_calendar.svg"],
       [name |-> "Goals Tracker", filename |-> "goals_tracker.svg"],
       [name |-> "Learning Stats", filename |-> "learning_stats.svg"],
       [name |-> "Career Timeline", filename |-> "career_timeline.svg"] >>

ChartOutcomes == {"written", "empty", "missing", "raised"}

ChartVerifiedIfExists(outcome) == outcome \in {"written", "empty"}

\* Path(path).exists() and Path(path).stat().st_size > 0
ChartVerified(outcome) == outcome = "written"

\* the message appended to errors
ChartError(name, outcome) ==
    [name |-> name,
     what |-> IF outcome = "raised" THEN "exception" ELSE "Empty file generated"]

DashboardInit ==
    /\ metrics_exists \in BOOLEAN
    /\ dashboardPc = "load"
    /\ chart_index = 0
    /\ charts_generated = <<>>
    /\ errors = <<>>
    /\ chart_outcomes = <<>>
    /\ exit_code = -1
    /\ StreakIdle
    /\ CareerIdle
    /\ RankIdle
    /\ CalendarIdle
    /\ CardIdle
    /\ CollectorIdle
    /\ MainIdle
    /\ HistoryIdle
    /\ TierIdle

\* lines 48-71: without data/metrics.json main returns 1 at once
DashboardLoad ==
    /\ dashboardPc = "load"
    /\ IF metrics_exists
          THEN dashboardPc' = "render" /\ exit_code' = exit_code
          ELSE dashboardPc' = "done" /\ exit_code' = 1
    /\ UNCHANGED <<metrics_exists, chart_index, charts_generated, errors,
                   chart_outcomes>>
    /\ UNCHANGED nonDashboardVars

\* lines 90-108: one iteration of the loop over chart_configs
DashboardRenderChart ==
    /\ dashboardPc = "render"
    /\ chart_index < Len(ChartConfigs)
    /\ \E outcome \in ChartOutcomes :
          LET chart == ChartConfigs[chart_index + 1]
          IN  /\ chart_outcomes' = Append(chart_outcomes, outcome)
              /\ IF outcome # "raised" /\ ChartVerified(outcome)
                    THEN /\ charts_generated' = Append(charts_generated, chart.filename)
                         /\ errors' = errors
                    ELSE /\ errors' = Append(errors, ChartError(chart.name, outcome))
                         /\ charts_generated' = charts_generated
    /\ chart_index' = chart_index + 1
    /\ UNCHANGED <<metrics_exists, dashboardPc, exit_code>>
    /\ UNCHANGED nonDashboardVars

\* line 148
DashboardReturn ==
    /\ dashboardPc = "render"
    /\ chart_index = Len(ChartConfigs)
    /\ exit_code' = IF Len(errors) = 0 THEN 0 ELSE 1
    /\ dashboardPc' = "done"
    /\ UNCHANGED <<metrics_exists, chart_index, charts_generated, errors,
                   chart_outcomes>>
    /\ UNCHANGED nonDashboardVars

DashboardNext == DashboardLoad \/ DashboardRenderChart \/ DashboardReturn

SpecDashboard == DashboardInit /\ [][DashboardNext]_vars

----------------------------------------------------------------------------
(* GitHubCollector.collect_commits, collect_pull_requests, collect_issues   *)
(*                                                                          *)
(* The API yields the items of a repository lazily, so a request can fail   *)
(* before the first item, between two items or after the last one.  An      *)
(* item carries one flag: for a pull request that it was updated before     *)
(* `since`, for an issue that it is a pull request; commits carry none.     *)

MaxItems == 2

\* the repositories of self.user.get_repos(), by name
CollectorRepos == <<"r1", "r2">>

CollectMethods == {"commits", "prs", "issues"}

ItemFlags(method) == IF method = "commits" THEN {FALSE} ELSE BOOLEAN

\* the records the inner loop appends for a repository whose items are
\* `items`, when the API raises on reaching item `fail` (0: it never raises)
RECURSIVE RepoRecords(_, _, _, _, _)
RepoRecords(method, name, items, fail, k) ==
    IF k > Len(items) \/ k = fail THEN <<>>
    ELSE IF method = "prs" /\ items[k] THEN <<>>
    ELSE IF method = "issues" /\ items[k]
         THEN RepoRecords(method, name, items, fail, k + 1)
    ELSE <<[repo |-> name, item |-> k]>>
             \o RepoRecords(method, name, items, fail, k + 1)

CollectorInit ==
    /\ collect_method \in CollectMethods
    /\ api_items \in [1..Len(CollectorRepos) ->
                        BoundedSeq(ItemFlags(collect_method), MaxItems)]
    /\ api_fail \in [1..Len(CollectorRepos) -> 0..(MaxItems + 1)]
    /\ \A r \in 1..Len(CollectorRepos) : api_fail[r] <= Len(api_items[r]) + 1
    /\ collectorPc = "loop"
    /\ repo_index = 0
    /\ collected_data = <<>>
    /\ StreakIdle
    /\ CareerIdle
    /\ RankIdle
    /\ CalendarIdle
    /\ CardIdle
    /\ DashboardIdle
    /\ MainIdle
    /\ HistoryIdle
    /\ TierIdle

\* one iteration of `for repo in self.user.get_repos()`: the try block and
\* its except branch, which prints and continues
CollectRepo ==
    /\ collectorPc = "loop"
    /\ repo_index < Len(CollectorRepos)
    /\ LET r == repo_index + 1
       IN  collected_data' = collected_data \o
               RepoRecords(collect_method, CollectorRepos[r], api_items[r],
                           api_fail[r], 1)
    /\ repo_index' = repo_index + 1
    /\ UNCHANGED <<collect_method, api_items, api_fail, collectorPc>>
    /\ UNCHANGED nonCollectorVars

\* return commits_data
CollectReturn ==
    /\ collectorPc = "loop"
    /\ repo_index = Len(CollectorRepos)
    /\ collectorPc' = "done"
    /\ UNCHANGED <<collect_method, api_items, api_fail, repo_index, collected_data>>
    /\ UNCHANGED nonCollectorVars

CollectorNext == CollectRepo \/ CollectReturn

SpecCollector == CollectorInit /\ [][CollectorNext]_vars

----------------------------------------------------------------------------
(* daily_metrics.main                                                       *)
(*                                                                          *)
(* A snapshot file is absent, holds what an earlier run wrote ("old"),      *)
(* holds this run's data ("new"), or was opened for writing and not         *)
(* completed ("partial": save_json opens with mode 'w' and then dumps).     *)

\* the files main saves, in the order of its steps
SnapshotFilesHistoryFirst ==
    <<"history.json", "metrics.json", "daily_activity.json", "projects.json">>

SnapshotFiles ==
    <<"metrics.json", "daily_activity.json", "projects.json", "history.json">>

TokenSample == {"absent", "", "ghp_token"}

TokenMissingOnlyAbsent(t) == t = "absent"

\* `not token` in get_github_token: the variable is unset or empty
TokenMissing(t) == t = "absent" \/ t = ""

StepOutcomes == {"ok", "collect_raises", "save_raises"}

MainInit ==
    /\ token \in TokenSample
    /\ mainPc = "token"
    /\ collector_created = FALSE
    /\ api_called = FALSE
    /\ files \in [1..Len(SnapshotFiles) -> {"absent", "old"}]
    /\ files_before = files
    /\ write_log = <<>>
    /\ failed_step = 0
    /\ failed_in = "none"
    /\ main_exit = -1
    /\ StreakIdle
    /\ CareerIdle
    /\ RankIdle
    /\ CalendarIdle
    /\ CardIdle
    /\ DashboardIdle
    /\ CollectorIdle
    /\ HistoryIdle
    /\ TierIdle

\* line 448, get_github_token: sys.exit(1) without a token
MainGetToken ==
    /\ mainPc = "token"
    /\ IF TokenMissing(token)
          THEN mainPc' = "exited" /\ main_exit' = 1
          ELSE mainPc' = "auth" /\ main_exit' = main_exit
    /\ UNCHANGED <<token, collector_created, api_called, files, files_before,
                   write_log, failed_step, failed_in>>
    /\ UNCHANGED nonMainVars

\* lines 481-492: the collector is constructed and the rate limit is read
MainAuthenticate ==
    /\ mainPc = "auth"
    /\ collector_created' = TRUE
    /\ api_called' = TRUE
    /\ \E ok \in BOOLEAN :
          IF ok THEN mainPc' = "step1" /\ main_exit' = main_exit
                ELSE mainPc' = "exited" /\ main_exit' = 1
    /\ UNCHANGED <<token, files, files_before, write_log, failed_step, failed_in>>
    /\ UNCHANGED nonMainVars

\* step k of lines 494-510: collect (update_history for k = 4), then save_json
MainStep(k, pc, nextPc) ==
    /\ mainPc = pc
    /\ api_called' = (api_called \/ k < 4)
    /\ \E outcome \in StepOutcomes :
          /\ files' = CASE outcome = "ok" -> [files EXCEPT ![k] = "new"]
                        [] outcome = "save_raises" -> [files EXCEPT ![k] = "partial"]
                        [] OTHER -> files
          /\ write_log' = IF outcome = "collect_raises" THEN write_log
                          ELSE Append(write_log, SnapshotFiles[k])
          /\ IF outcome = "ok"
                THEN /\ mainPc' = nextPc
                     /\ UNCHANGED <<failed_step, failed_in, main_exit>>
                ELSE /\ mainPc' = "exited"
                     /\ failed_step' = k
                     /\ failed_in' = IF outcome = "collect_raises" THEN "collect" ELSE "save"
                     /\ main_exit' = 1
    /\ UNCHANGED <<token, collector_created, files_before>>
    /\ UNCHANGED nonMainVars

MainMetrics == MainStep(1, "step1", "step2")

MainDailyActivity == MainStep(2, "step2", "step3")

MainProjects == MainStep(3, "step3", "step4")

MainHistory == MainStep(4, "step4", "finish")

\* lines 512-524: main returns and the process ends with status 0
MainFinish ==
    /\ mainPc = "finish"
    /\ mainPc' = "exited"
    /\ main_exit' = 0
    /\ UNCHANGED <<token, collector_created, api_called, files, files_before,
                   write_log, failed_step, failed_in>>
    /\ UNCHANGED nonMainVars

MainNext ==
    \/ MainGetToken
    \/ MainAuthenticate
    \/ MainMetrics
    \/ MainDailyActivity
    \/ MainProjects
    \/ MainHistory
    \/ MainFinish

SpecMain == MainInit /\ [][MainNext]_vars

----------------------------------------------------------------------------
(* daily_metrics.update_history and the renderers that read history.json    *)
(*                                                                          *)
(* A month is its index (month 1 = "2024-01"): the 'YYYY-MM' strings of     *)
(* four-digit years sort as the months do.  A snapshot is its month and     *)
(* the metrics it records.  The history keeps 12 months in the program,     *)
(* HistoryKeep here.                                                        *)

HistoryKeep == 3
MaxMonth == 6

MetricsSample == {1, 2}

Snapshot(m, x) == [month |-> m, metrics |-> x]

\* prev_data = {} / no snapshot read
NoSnapshot == [month |-> 0, metrics |-> 0]

RECURSIVE InsertMonthAscending(_, _)
InsertMonthAscending(sorted, s) ==
    IF sorted = <<>> THEN <<s>>
    ELSE IF Head(sorted).month <= s.month
         THEN <<Head(sorted)>> \o InsertMonthAscending(Tail(sorted), s)
         ELSE <<s>> \o sorted

RECURSIVE SortByMonthAscending(_)
SortByMonthAscending(l) ==
    IF l = <<>> THEN <<>>
    ELSE InsertMonthAscending(SortByMonthAscending(SubSeq(l, 1, Len(l) - 1)), l[Len(l)])

RECURSIVE InsertMonthDescending(_, _)
InsertMonthDescending(sorted, s) ==
    IF sorted = <<>> THEN <<s>>
    ELSE IF Head(sorted).month >= s.month
         THEN <<Head(sorted)>> \o InsertMonthDescending(Tail(sorted), s)
         ELSE <<s>> \o sorted

RECURSIVE SortByMonthDescending(_)
\* sorted(valid_snapshots, key=lambda s: s['month'], reverse=True)
SortByMonthDescending(l) ==
    IF l = <<>> THEN <<>>
    ELSE InsertMonthDescending(SortByMonthDescending(SubSeq(l, 1, Len(l) - 1)), l[Len(l)])

\* lines 403-414: the first snapshot of the month is replaced, else appended
PutSnapshot(snapshots, snapshot) ==
    LET same == {i \in 1..Len(snapshots) : snapshots[i].month = snapshot.month}
    IN  IF same = {} THEN Append(snapshots, snapshot)
        ELSE [snapshots EXCEPT ![SetMin(same)] = snapshot]

\* update_history(metrics) in month m, on the monthly_snapshots of the file
UpdateHistoryOf(snapshots, m, x) ==
    SubSeq(SortByMonthDescending(PutSnapshot(snapshots, Snapshot(m, x))), 1,
           Min(HistoryKeep, Len(PutSnapshot(snapshots, Snapshot(m, x)))))

\* generate_stats_hero: months[-2] when there are at least 2 snapshots
StatsHeroPrevData(months) ==
    IF Len(months) >= 2 THEN months[Len(months) - 1] ELSE NoSnapshot

\* generate_performance_comparison: snapshots[-1] when there is one
ComparisonCurrent(snapshots) ==
    IF Len(snapshots) >= 1 THEN snapshots[Len(snapshots)] ELSE NoSnapshot

\* a history file written by hand or by earlier runs: one snapshot per
\* month, at most HistoryKeep of them, none later than the first month
WellFormedHistories(m) ==
    {h \in BoundedSeq({Snapshot(k, 1) : k \in 1..m}, HistoryKeep) :
        \A i, j \in 1..Len(h) : i # j => h[i].month # h[j].month}

HistoryInit ==
    /\ history_month \in 1..2
    /\ history \in WellFormedHistories(history_month)
    /\ history_calls = FALSE
    /\ recorded_months = {history[i].month : i \in 1..Len(history)}
    /\ last_metrics = 0
    /\ last_month = 0
    /\ updated = FALSE
    /\ hero_prev = NoSnapshot
    /\ comparison_curr = NoSnapshot
    /\ StreakIdle
    /\ CareerIdle
    /\ RankIdle
    /\ CalendarIdle
    /\ CardIdle
    /\ DashboardIdle
    /\ CollectorIdle
    /\ MainIdle
    /\ TierIdle

\* one run of update_history followed by save_json(history, 'history.json')
UpdateHistory ==
    /\ \E x \in MetricsSample :
          /\ history' = UpdateHistoryOf(history, history_month, x)
          /\ last_metrics' = x
    /\ last_month' = history_month
    /\ updated' = (\E i \in 1..Len(history) : history[i].month = history_month)
    /\ history_calls' = TRUE
    /\ recorded_months' = recorded_months \cup {history_month}
    /\ UNCHANGED <<history_month, hero_prev, comparison_curr>>
    /\ UNCHANGED nonHistoryVars

\* time passes between runs: the next run is in a later month
NextMonth ==
    /\ \E m \in (history_month + 1)..MaxMonth : history_month' = m
    /\ UNCHANGED <<history, history_calls, recorded_months, last_metrics,
                   last_month, updated, hero_prev, comparison_curr>>
    /\ UNCHANGED nonHistoryVars

\* the dashboard renders from the history on disk
RenderFromHistory ==
    /\ hero_prev' = StatsHeroPrevData(history)
    /\ comparison_curr' = ComparisonCurrent(history)
    /\ UNCHANGED <<history, history_month, history_calls, recorded_months,
                   last_metrics, last_month, updated>>
    /\ UNCHANGED nonHistoryVars

HistoryNext == UpdateHistory \/ NextMonth \/ RenderFromHistory

SpecHistory == HistoryInit /\ [][HistoryNext]_vars

----------------------------------------------------------------------------
(* The developer tier: EnhancedSVGRenderer._calculate_tier and the cards    *)
(* that show it (generate_tier_card, generate_streak_card,                  *)
(* SimpleSVGRenderer.generate_tier_simple,                                  *)
(* CompactChartGenerator.generate_tier_compact)                             *)
(*                                                                          *)
(* Progress percentages are kept in hundredths of a percent, rounded down.  *)

\* metrics whose scores lie on both sides of every threshold
TierMetrics ==
    [total_commits : {0, 25, 72, 75, 172, 175, 297, 300, 497, 500},
     total_repos : {0, 1, 2},
     current_streak : {0, 1},
     total_prs : {0, 1, 25}]

TierScore(m) ==
    m.total_commits * 2 + m.total_repos * 5 + m.current_streak * 3
        + m.total_prs * 4

TierOfScoreStrict(score) ==
    IF score > 1000 THEN "Elite"
    ELSE IF score > 600 THEN "Expert"
    ELSE IF score > 350 THEN "Advanced"
    ELSE IF score > 150 THEN "Intermediate"
    ELSE "Beginner"

\* the if chain of _calculate_tier
TierOfScore(score) ==
    IF score >= 1000 THEN "Elite"
    ELSE IF score >= 600 THEN "Expert"
    ELSE IF score >= 350 THEN "Advanced"
    ELSE IF score >= 150 THEN "Intermediate"
    ELSE "Beginner"

\* _calculate_tier(metrics): the tier label (icon, colour and description
\* follow the label) with the score it was computed from
CalculateTier(m) == [tier |-> TierOfScore(TierScore(m)), score |-> TierScore(m)]

TierThresholdsAdvancedAtFloor(tier) ==
    CASE tier = "Beginner" -> [threshold |-> 150, next |-> "Intermediate"]
      [] tier = "Intermediate" -> [threshold |-> 350, next |-> "Advanced"]
      [] tier = "Advanced" -> [threshold |-> 350, next |-> "Expert"]
      [] tier = "Expert" -> [threshold |-> 1000, next |-> "Elite"]
      [] OTHER -> [threshold |-> 1000, next |-> "Elite"]

\* tier_thresholds.get(tier, (1000, "Elite"))
TierThresholds(tier) ==
    CASE tier = "Beginner" -> [threshold |-> 150, next |-> "Intermediate"]
      [] tier = "Intermediate" -> [threshold |-> 350, next |-> "Advanced"]
      [] tier = "Advanced" -> [threshold |-> 600, next |-> "Expert"]
      [] tier = "Expert" -> [threshold |-> 1000, next |-> "Elite"]
      [] OTHER -> [threshold |-> 1000, next |-> "Elite"]

\* min((score / next_threshold) * 100, 100) if tier != "Elite" else 100
ProgressToNext(tier, score, threshold) ==
    IF tier # "Elite" THEN Min((score * 10000) \div threshold, 10000) ELSE 10000

\* generate_tier_card, lines 748-768
TierCard(m) ==
    LET score == m.total_commits * 2 + m.total_repos * 5
                    + m.current_streak * 3 + m.total_prs * 4
        tier == CalculateTier(m).tier
        th == TierThresholds(tier)
    IN  [tier |-> tier, score |-> score,
         next_threshold |-> th.threshold, next_tier |-> th.next,
         progress |-> ProgressToNext(tier, score, th.threshold),
         points_needed |-> Max(0, th.threshold - score)]

\* generate_streak_card, lines 577-598
StreakCardTier(m) ==
    LET score == m.total_commits * 2 + m.total_repos * 5
                    + m.current_streak * 3 + m.total_prs * 4
        tier == CalculateTier(m).tier
        th == TierThresholds(tier)
    IN  [tier |-> tier, score |-> score,
         next_threshold |-> th.threshold, next_tier |-> th.next,
         progress |-> ProgressToNext(tier, score, th.threshold)]

\* generate_tier_simple, lines 201-226
TierSimple(m) ==
    LET score == m.total_commits * 2 + m.total_repos * 5 + m.current_streak * 3
    IN  [tier |-> IF score >= 500 THEN "Elite"
                  ELSE IF score >= 300 THEN "Expert"
                  ELSE IF score >= 150 THEN "Advanced"
                  ELSE IF score >= 50 THEN "Intermediate"
                  ELSE "Beginner",
         score |-> score]

\* generate_tier_compact, lines 178-209
TierCompact(m) ==
    LET score == m.total_commits * 2 + m.total_repos * 5 + m.current_streak * 3
    IN  [tier |-> IF score >= 500 THEN "Elite"
                  ELSE IF score >= 300 THEN "Expert"
                  ELSE IF score >= 150 THEN "Advanced"
                  ELSE IF score >= 50 THEN "Intermediate"
                  ELSE "Beginner",
         score |-> score]

TierInit ==
    /\ tier_metrics \in TierMetrics
    /\ tier_done = {}
    /\ tier_result = <<>>
    /\ tier_card = <<>>
    /\ streak_card_tier = <<>>
    /\ tier_simple = <<>>
    /\ tier_compact = <<>>
    /\ StreakIdle
    /\ CareerIdle
    /\ RankIdle
    /\ CalendarIdle
    /\ CardIdle
    /\ DashboardIdle
    /\ CollectorIdle
    /\ MainIdle
    /\ HistoryIdle

\* a renderer calls _calculate_tier(metrics)
CalculateTierCall ==
    /\ "calculate_tier" \notin tier_done /\ "off" \notin tier_done
    /\ tier_result' = CalculateTier(tier_metrics)
    /\ tier_done' = tier_done \cup {"calculate_tier"}
    /\ UNCHANGED <<tier_metrics, tier_card, streak_card_tier, tier_simple, tier_compact>>
    /\ UNCHANGED nonTierVars

GenerateTierCard ==
    /\ "tier_card" \notin tier_done /\ "off" \notin tier_done
    /\ tier_card' = TierCard(tier_metrics)
    /\ tier_done' = tier_done \cup {"tier_card"}
    /\ UNCHANGED <<tier_metrics, tier_result, streak_card_tier, tier_simple, tier_compact>>
    /\ UNCHANGED nonTierVars

GenerateStreakCardTier ==
    /\ "streak_card" \notin tier_done /\ "off" \notin tier_done
    /\ streak_card_tier' = StreakCardTier(tier_metrics)
    /\ tier_done' = tier_done \cup {"streak_card"}
    /\ UNCHANGED <<tier_metrics, tier_result, tier_card, tier_simple, tier_compact>>
    /\ UNCHANGED nonTierVars

GenerateTierSimple ==
    /\ "tier_simple" \notin tier_done /\ "off" \notin tier_done
    /\ tier_simple' = TierSimple(tier_metrics)
    /\ tier_done' = tier_done \cup {"tier_simple"}
    /\ UNCHANGED <<tier_metrics, tier_result, tier_card, streak_card_tier, tier_compact>>
    /\ UNCHANGED nonTierVars

GenerateTierCompact ==
    /\ "tier_compact" \notin tier_done /\ "off" \notin tier_done
    /\ tier_compact' = TierCompact(tier_metrics)
    /\ tier_done' = tier_done \cup {"tier_compact"}
    /\ UNCHANGED <<tier_metrics, tier_result, tier_card, streak_card_tier, tier_simple>>
    /\ UNCHANGED nonTierVars

TierNext ==
    \/ CalculateTierCall
    \/ GenerateTierCard
    \/ GenerateStreakCardTier
    \/ GenerateTierSimple
    \/ GenerateTierCompact

SpecTier == TierInit /\ [][TierNext]_vars

----------------------------------------------------------------------------
(* Properties of the streak computations *)

ProcessorDone == "processor" \in streakPhase

ScriptDone == "script" \in streakPhase

\* the distinct calendar dates of the commit list
ActiveDates == {commits[i].date : i \in 1..Len(commits)}

\* number of consecutive calendar days in S that end at day d (d in S)
RunEndingAt(S, d) ==
    SetMax({k \in 1..Cardinality(S) : \A j \in 0..(k - 1) : (d - j) \in S})

\* length of the longest run of consecutive calendar days in S
LongestRun(S) == IF S = {} THEN 0 ELSE SetMax({RunEndingAt(S, d) : d \in S})

\* C1: when the most recent commit date is more than one day before today,
\* the processor's current streak is 0 whatever the earlier dates are; a
\* single such active date gives current = 0 and longest = 1.
C1_StaleStreakIsZero ==
    (ProcessorDone /\ commits # <<>> /\ today - SetMax(ActiveDates) > 1)
        => /\ streak.current = 0
           /\ (Cardinality(ActiveDates) = 1 => streak.longest = 1)

C1_Witness ==
    /\ ProcessorDone
    /\ Len(commits) >= 2
    /\ Cardinality(ActiveDates) = 1
    /\ today - SetMax(ActiveDates) > 1
    /\ streak = [current |-> 0, longest |-> 1]

\* C2: when the most recent commit date is today or yesterday, current is the
\* length of the maximal run of consecutive calendar days ending at the most
\* recent commit date, each distinct date counted once, for any order of the
\* list and any number of commits per day.
C2_CurrentIsFinalRun ==
    (ProcessorDone /\ commits # <<>> /\ today - SetMax(ActiveDates) \in {0, 1})
        => streak.current = RunEndingAt(ActiveDates, SetMax(ActiveDates))

C2_Witness ==
    /\ ProcessorDone
    /\ Len(commits) = 4
    /\ commits[1].date = today - 2
    /\ commits[2].date = today - 5
    /\ commits[3].date = today - 1
    /\ commits[4].date = today - 2
    /\ streak.current = 2

\* C3: longest is the length of the longest run of consecutive calendar days
\* among the distinct commit dates, for every commit list; commits on days
\* 1, 2, 3 and 10 with today = day 10 give current = 1 and longest = 3.
C3_LongestIsLongestRun ==
    ProcessorDone
        => /\ streak.longest = LongestRun(ActiveDates)
           /\ (ActiveDates = {1, 2, 3, 10} /\ today = 10
                  => streak = [current |-> 1, longest |-> 3])

C3_Witness ==
    /\ ProcessorDone
    /\ commits = <<[date |-> 10], [date |-> 3], [date |-> 1], [date |-> 2]>>
    /\ today = 10
    /\ streak = [current |-> 1, longest |-> 3]

\* C4 as stated: some commit list makes the processor return a current streak
\* strictly greater than its longest streak.
C4_CurrentCanExceedLongest ==
    \E cs \in BoundedSeq(CommitRecords, MaxCommits) :
        ProcessorStreak(cs, today).current > ProcessorStreak(cs, today).longest

\* C4 (amended): longest >= current holds for every commit list and every
\* value of today.
C4_LongestAtLeastCurrent ==
    ProcessorDone => streak.longest >= streak.current

C4_Witness ==
    /\ ProcessorDone
    /\ Cardinality(ActiveDates) = 4
    /\ streak.current = 2
    /\ streak.longest = 2

\* C5: longest = 0 exactly when the commit list is empty, and then current = 0;
\* for a non-empty list longest >= 1; both values are never negative.
C5_LongestZeroIffEmpty ==
    ProcessorDone
        => /\ (streak.longest = 0 <=> commits = <<>>)
           /\ (commits = <<>> => streak.current = 0)
           /\ (commits # <<>> => streak.longest >= 1)
           /\ streak.current >= 0
           /\ streak.longest >= 0

C5_Witness ==
    /\ ProcessorDone
    /\ commits = <<>>
    /\ streak = [current |-> 0, longest |-> 0]

\* C6: the streak the collection script computes from the commits-per-date
\* map has current = 0 whenever the most recent date with a commit is more
\* than one day before today.
C6_ScriptStaleStreakIsZero ==
    (ScriptDone /\ DOMAIN commits_by_date # {}
        /\ today - SetMax({d \in DOMAIN commits_by_date : commits_by_date[d] > 0}) > 1)
        => script_streak.current = 0

----------------------------------------------------------------------------
(* Properties of _calculate_total_experience *)

CareerDone == careerPc = "done"

\* the calendar month of a datetime, as a number of months
MonthIndex(dt) == dt.year * 12 + dt.month

\* the parsed (start, end) pairs of the work entries, in input order
WorkIntervals ==
    {[start |-> ParseDate(entries[i].date_start, now),
      end |-> ParseDate(entries[i].date_end, now), at |-> i] :
        i \in {j \in 1..Len(entries) : entries[j].type = "work"}}

RECURSIVE NaiveSum(_)
\* the sum of each period's own month count, without merging
NaiveSum(ps) ==
    IF ps = <<>> THEN 0
    ELSE PeriodMonths(Head(ps).start, Head(ps).end) + NaiveSum(Tail(ps))

\* two different work entries have a calendar month in common
SomeMonthShared ==
    \E p, q \in WorkIntervals :
        /\ p.at # q.at
        /\ MonthIndex(DtMax(p.start, q.start)) <= MonthIndex(p.end)
        /\ MonthIndex(DtMax(p.start, q.start)) <= MonthIndex(q.end)

\* two different work entries have more than a boundary month in common: one
\* starts in a month strictly before the month the other ends in, and
\* conversely
SomeSpanShared ==
    \E p, q \in WorkIntervals :
        /\ p.at # q.at
        /\ MonthIndex(DtMax(p.start, q.start)) < MonthIndex(p.end)
        /\ MonthIndex(DtMax(p.start, q.start)) < MonthIndex(q.end)

\* C7 as stated: the merged total is <= the sum of each interval's own month
\* count, and the two are equal if and only if no two intervals overlap.
C7_EqualIffNoOverlap ==
    CareerDone
        => /\ total_months <= NaiveSum(periods)
           /\ (total_months = NaiveSum(periods) <=> ~SomeMonthShared)

\* C7 (amended): the merged total is <= the sum of each interval's own month
\* count, and the two are equal if and only if no two intervals have more
\* than a boundary month in common (intervals that only touch, or an interval
\* of zero months, leave the total unchanged).
C7_EqualIffNoSharedSpan ==
    CareerDone
        => /\ total_months <= NaiveSum(periods)
           /\ (total_months = NaiveSum(periods) <=> ~SomeSpanShared)

C7_Witness ==
    /\ CareerDone
    /\ Len(periods) = 3
    /\ Len(merged) = 2
    /\ SomeSpanShared
    /\ total_months < NaiveSum(periods)

JobA == [type |-> "work", date_start |-> YearMonth(2020, 1),
         date_end |-> YearMonth(2021, 12)]

JobB == [type |-> "work", date_start |-> YearMonth(2021, 6),
         date_end |-> YearMonth(2022, 6)]

JobsMerged == <<[start |-> [year |-> 2020, month |-> 1, late |-> 0],
                 end |-> [year |-> 2022, month |-> 6, late |-> 0]]>>

JobMonths(job) ==
    PeriodMonths(ParseDate(job.date_start, now), ParseDate(job.date_end, now))

\* C8 as stated: Job A 2020-01..2021-12 and Job B 2021-06..2022-06 merge into
\* the single interval 2020-01..2022-06, the total is 30 months, rendered
\* 2y 6m, and the jobs' own month counts are 24 and 13.
C8_ScenarioThirtyMonths ==
    (CareerDone /\ entries \in {<<JobA, JobB>>, <<JobB, JobA>>})
        => /\ merged = JobsMerged
           /\ total_months = 30
           /\ total_experience = "2y 6m"
           /\ JobMonths(JobA) = 24
           /\ JobMonths(JobB) = 13

\* C8 (amended): the two jobs merge into the single interval 2020-01..2022-06,
\* the total is 29 months, rendered 2y 5m, and the jobs' own month counts are
\* 23 and 12.
C8_ScenarioTwentyNineMonths ==
    (CareerDone /\ entries \in {<<JobA, JobB>>, <<JobB, JobA>>})
        => /\ merged = JobsMerged
           /\ total_months = 29
           /\ total_experience = "2y 5m"
           /\ JobMonths(JobA) = 23
           /\ JobMonths(JobB) = 12

C8_Witness ==
    /\ CareerDone
    /\ entries = <<JobB, JobA>>
    /\ merged = JobsMerged
    /\ total_experience = "2y 5m"

\* C9: at every step of the fold and at its end the merged list is sorted by
\* start and pairwise non-overlapping: each merged interval starts strictly
\* after the previous merged interval ends.
C9_MergedSortedDisjoint ==
    careerPc \in {"merge", "done"}
        => /\ \A i \in 2..Len(merged) :
                /\ DtLe(merged[i-1].start, merged[i].start)
                /\ DtLt(merged[i-1].end, merged[i].start)
           /\ \A i, j \in 1..Len(merged) :
                i < j => DtLt(merged[i].end, merged[j].start)

C9_Witness ==
    /\ careerPc = "merge"
    /\ Len(periods) = 3
    /\ next_period = 3
    /\ Len(merged) = 2
    /\ periods # WorkPeriods(entries, now)

\* the calendar months from a work entry's start month through its end month
MonthsCoveredInclusive ==
    UNION {MonthIndex(p.start)..MonthIndex(p.end) : p \in WorkIntervals}

\* the calendar months from a work entry's start month up to, not including,
\* its end month
MonthsCoveredBeforeEnd ==
    UNION {MonthIndex(p.start)..(MonthIndex(p.end) - 1) : p \in WorkIntervals}

\* C10 as stated: the total equals the number of calendar months covered by
\* the union of the work intervals, each covered month counted once.
C10_TotalIsMonthsCovered ==
    CareerDone
        => total_months = Cardinality(MonthsCoveredInclusive)

\* C10 (amended): the total equals the number of calendar months in the union
\* of the work intervals when each interval runs from its start month up to,
\* not including, its end month; a month inside two or more work entries is
\* counted once, other entry types contribute nothing and the order of the
\* entries does not matter.
C10_TotalIsMonthsBeforeEnd ==
    CareerDone => total_months = Cardinality(MonthsCoveredBeforeEnd)

C10_Witness ==
    /\ CareerDone
    /\ Len(entries) = 3
    /\ entries[1].type = "work"
    /\ entries[2].type = "education"
    /\ entries[3].type = "work"
    /\ DtLt(ParseDate(entries[3].date_start, now), ParseDate(entries[1].date_start, now))
    /\ SomeSpanShared
    /\ total_months > 0

\* some entry of the list has type work
HasWorkEntry == \E i \in 1..Len(entries) : entries[i].type = "work"

\* C11: the returned string is 0y when the entry list is empty or holds no
\* entry of type work; the call ends (no exception) on such a list.
C11_NoWorkGivesZeroYears ==
    /\ (CareerDone /\ ~HasWorkEntry) => total_experience = "0y"
    /\ (careerPc = "start" /\ ~HasWorkEntry) => ENABLED CollectPeriods

C11_Witness ==
    /\ CareerDone
    /\ Len(entries) = 2
    /\ ~HasWorkEntry
    /\ total_experience = "0y"

\* the years part and the months part of a rendered total
YearsPart(t) == ToString(t \div 12) \o "y"

MonthsPart(t) == ToString(t % 12) \o "m"

----------------------------------------------------------------------------
(* Properties of the rankings *)

RepoIndex == 1..Len(repos)

\* number of positions of a list that hold the value n
Occurrences(l, n) == Cardinality({j \in 1..Len(l) : l[j] = n})

\* the ranking key of the i-th repository, per ranking
ActivityKeyOf(i) ==
    Occurrences(rank_commits, repos[i].name) + Occurrences(rank_prs, repos[i].name)
        + Occurrences(rank_issues, repos[i].name)

CommitsKeyOf(i) == Occurrences(rank_commits, repos[i].name)

StarsKeyOf(i) == repos[i].stars

RecentKeyOf(i) == LastPushKey(repos[i].pushed_at)

\* the repositories each ranking may return
ActivityEligible == {i \in RepoIndex : ActivityKeyOf(i) > 0}

CommitsEligible == {i \in RepoIndex : CommitsKeyOf(i) > 0}

StarsEligible == {i \in RepoIndex : StarsKeyOf(i) > 0}

RecentEligible == {i \in RepoIndex : ~repos[i].pushed_at.none}

\* the repositories (by position in the input list) a result returns
Returned(res) == {res[k].full_name : k \in 1..Len(res)}

\* res holds min(limit, n) distinct eligible repositories, at most limit, and
\* no eligible repository left out has a key above that of a returned one
IsTopOfSorted(res, eligible, KeyOf(_)) ==
    /\ Len(res) = Min(limit, Cardinality(eligible))
    /\ Len(res) <= limit
    /\ Returned(res) \subseteq eligible
    /\ Cardinality(Returned(res)) = Len(res)
    /\ \A k \in 1..Len(res) : res[k].key = KeyOf(res[k].full_name)
    /\ \A i \in eligible \ Returned(res) :
          \A k \in 1..Len(res) : KeyOf(i) <= res[k].key

\* C13: for every limit >= 0 each ranking returns the first min(limit, n)
\* entries of the sorted list of eligible repositories: at most limit entries,
\* and nothing left out ranks strictly above a returned entry.
C13_TruncatedAfterFullSort ==
    /\ rankPc >= 1 => IsTopOfSorted(top_projects, ActivityEligible, ActivityKeyOf)
    /\ rankPc >= 2 => IsTopOfSorted(most_active, CommitsEligible, CommitsKeyOf)
    /\ rankPc >= 3 => IsTopOfSorted(most_stars, StarsEligible, StarsKeyOf)
    /\ rankPc >= 4 => IsTopOfSorted(most_recent, RecentEligible, RecentKeyOf)

C13_Witness ==
    /\ rankPc = 4
    /\ limit = 2
    /\ Cardinality(ActivityEligible) = 3
    /\ Len(top_projects) = 2
    /\ top_projects[1].full_name = 2
    /\ top_projects[1].score > top_projects[2].score
    /\ ActivityEligible \ Returned(top_projects) = {3}

\* C14: the score, stars and commits of the entries returned by
\* rank_by_activity, rank_by_stars and rank_by_commits never increase from one
\* entry to the next.
C14_KeysNonIncreasing ==
    /\ \A k \in 2..Len(top_projects) : top_projects[k-1].score >= top_projects[k].score
    /\ \A k \in 2..Len(most_stars) : most_stars[k-1].stars >= most_stars[k].stars
    /\ \A k \in 2..Len(most_active) : most_active[k-1].commits >= most_active[k].commits

C14_Witness ==
    /\ rankPc = 4
    /\ limit = 3
    /\ [i \in 1..Len(repos) |-> repos[i].stars] = <<5, 0, 12, 5>>
    /\ [k \in 1..Len(most_stars) |-> most_stars[k].stars] = <<12, 5, 5>>

\* the repositories of the list have pairwise different names
UniqueNames == \A i, j \in RepoIndex : repos[i].name = repos[j].name => i = j

RECURSIVE SumOfScores(_)
SumOfScores(res) == IF res = <<>> THEN 0 ELSE Head(res).score + SumOfScores(Tail(res))

\* the events (commits, pull requests, issues) of a repository of the list
ListedEvents ==
    Cardinality({j \in 1..Len(rank_commits) : \E i \in RepoIndex : repos[i].name = rank_commits[j]})
    + Cardinality({j \in 1..Len(rank_prs) : \E i \in RepoIndex : repos[i].name = rank_prs[j]})
    + Cardinality({j \in 1..Len(rank_issues) : \E i \in RepoIndex : repos[i].name = rank_issues[j]})

\* C15: a ranked repository's score is its number of commits plus pull
\* requests plus issues, only repositories with score > 0 are returned, and
\* with unique names (and no truncation by the limit) the scores add up to the
\* number of events that belong to a listed repository.
C15_ScoreIsEventCount ==
    rankPc >= 1
        => /\ \A k \in 1..Len(top_projects) :
                /\ top_projects[k].score = ActivityKeyOf(top_projects[k].full_name)
                /\ top_projects[k].score > 0
           /\ (UniqueNames /\ limit >= Cardinality(ActivityEligible))
                => SumOfScores(top_projects) = ListedEvents

C15_Witness ==
    /\ rankPc >= 1
    /\ UniqueNames
    /\ Len(repos) = 2
    /\ Len(rank_commits) = 2
    /\ Len(rank_issues) = 1
    /\ \E j \in 1..Len(rank_commits) : rank_commits[j] = "x"
    /\ Len(top_projects) = 1
    /\ SumOfScores(top_projects) = 2

\* C16: rank_by_stars never returns a repository with 0 stars; for
\* repositories with stars 0, 5, 5, 12 and limit 2 it returns an entry with 12
\* stars followed by an entry with 5 stars.
C16_StarsNeverZero ==
    rankPc >= 3
        => /\ \A k \in 1..Len(most_stars) : most_stars[k].stars > 0
           /\ (Len(repos) = 4 /\ [i \in 1..4 |-> repos[i].stars] = <<0, 5, 5, 12>> /\ limit = 2)
                => [k \in 1..Len(most_stars) |-> most_stars[k].stars] = <<12, 5>>

C16_Witness ==
    /\ rankPc >= 3
    /\ Len(repos) = 4
    /\ [i \in 1..4 |-> repos[i].stars] = <<0, 5, 5, 12>>
    /\ limit = 2
    /\ Len(most_stars) = 2
    /\ most_stars[1].stars = 12
    /\ most_stars[2].stars = 5

\* repositories with equal keys come out in input order, and of a tie across
\* the cut the earlier repositories are the ones returned
TiesInInputOrder(res, eligible, KeyOf(_)) ==
    /\ \A k, l \in 1..Len(res) :
          (k < l /\ res[k].key = res[l].key) => res[k].full_name < res[l].full_name
    /\ \A i \in eligible \ Returned(res) :
          \A k \in 1..Len(res) : KeyOf(i) = res[k].key => res[k].full_name < i

\* C17: in every ranking two repositories with equal ranking key appear in
\* the same relative order as in the input repository list, and when a tie
\* straddles the limit the earlier-collected repository is the one kept.
C17_TiesKeepCollectionOrder ==
    /\ rankPc >= 1 => TiesInInputOrder(top_projects, ActivityEligible, ActivityKeyOf)
    /\ rankPc >= 2 => TiesInInputOrder(most_active, CommitsEligible, CommitsKeyOf)
    /\ rankPc >= 3 => TiesInInputOrder(most_stars, StarsEligible, StarsKeyOf)
    /\ rankPc >= 4 => TiesInInputOrder(most_recent, RecentEligible, RecentKeyOf)

C17_Witness ==
    /\ rankPc = 4
    /\ [i \in 1..Len(repos) |-> repos[i].stars] = <<5, 12, 5, 5>>
    /\ limit = 3
    /\ [k \in 1..Len(most_stars) |-> most_stars[k].full_name] = <<2, 1, 3>>

\* C18: along the list rank_by_recent_activity returns, days_ago never
\* decreases, and no repository without a pushed_at appears.
C18_DaysAgoNonDecreasing ==
    rankPc >= 4
        => /\ \A k \in 2..Len(most_recent) :
                most_recent[k-1].days_ago <= most_recent[k].days_ago
           /\ \A k \in 1..Len(most_recent) : ~most_recent[k].last_push.none

----------------------------------------------------------------------------
(* Properties of the SVG renderers *)

CalendarDone == calendarPc = "done"

\* the opacity, in tenths, that the thresholds on count / max_count name
BandOpacity(count, mx) ==
    IF 5 * count >= 4 * mx THEN 10
    ELSE IF 2 * count >= mx THEN 7
    ELSE IF 4 * count >= mx THEN 6
    ELSE 4

\* C19: two calls of generate_streak_card on the same metrics and theme
\* write the same card, also when the metrics hold fewer days of daily
\* commit data than the sparkline window.
C19_TwoCallsByteIdentical ==
    cardPc = 2 => first_card = second_card

\* C20: a day cell with 0 < count <= max_count gets opacity 1.0 when
\* count/max_count >= 0.8, 0.7 when >= 0.5, 0.6 when >= 0.25 and 0.4
\* otherwise, and a day without commits gets 0.2; for a fixed max_count
\* the opacity never decreases as the count grows, and a day holding a
\* positive maximum gets opacity 1.0.
C20_OpacityBands ==
    /\ CalendarDone =>
          \A i \in 1..Len(days_data) :
             /\ days_data[i] = 0 => cell_opacity[i] = 2
             /\ days_data[i] > 0 =>
                   /\ days_data[i] <= max_count
                   /\ cell_opacity[i] = BandOpacity(days_data[i], max_count)
             /\ (days_data[i] = max_count /\ max_count > 0) => cell_opacity[i] = 10
             /\ \A j \in 1..Len(days_data) :
                   days_data[i] <= days_data[j] => cell_opacity[i] <= cell_opacity[j]
    /\ \A mx \in 1..MaxCount : \A c \in 0..mx :
          /\ GetActivityLevelColor(c, mx).opacity =
                IF c = 0 THEN 2 ELSE BandOpacity(c, mx)
          /\ c > 0 => GetActivityLevelColor(c - 1, mx).opacity
                         <= GetActivityLevelColor(c, mx).opacity
          /\ GetActivityLevelColor(mx, mx).opacity = 10

\* a finished calendar whose window has a day at exactly 0.8 of the
\* maximum, the day of the maximum and a day in the lowest band
C20_Witness ==
    /\ CalendarDone
    /\ max_count = 5
    /\ \E i, j, k \in 1..Len(days_data) :
          /\ days_data[i] = 1 /\ cell_opacity[i] = 4
          /\ days_data[j] = 4 /\ cell_opacity[j] = 10
          /\ days_data[k] = 5 /\ cell_opacity[k] = 10

----------------------------------------------------------------------------
(* Properties of the dashboard script *)

\* number of entries of a sequence that satisfy a field test
GeneratedTimes(f) ==
    Cardinality({i \in 1..Len(charts_generated) : charts_generated[i] = f})

ErrorTimes(n) == Cardinality({i \in 1..Len(errors) : errors[i].name = n})

RenderingStarted == dashboardPc = "render" \/ (dashboardPc = "done" /\ metrics_exists)

\* C21: once rendering starts every configured chart is attempted in order
\* whatever the earlier charts did; each attempted chart is in exactly one
\* of charts_generated and errors, in errors exactly when it raised or its
\* file is empty or missing; main returns 0 iff errors is empty, else 1.
C21_EveryChartOnceAndExitCode ==
    RenderingStarted =>
       /\ Len(chart_outcomes) = chart_index
       /\ (dashboardPc = "render" /\ chart_index < Len(ChartConfigs))
             => ENABLED DashboardRenderChart
       /\ dashboardPc = "done" => chart_index = Len(ChartConfigs)
       /\ \A i \in 1..Len(ChartConfigs) :
             LET g == GeneratedTimes(ChartConfigs[i].filename)
                 e == ErrorTimes(ChartConfigs[i].name)
             IN  IF i <= chart_index
                    THEN /\ g + e = 1
                         /\ (e = 1) <=> (chart_outcomes[i] \in {"raised", "empty", "missing"})
                    ELSE g + e = 0
       /\ dashboardPc = "done" =>
             /\ exit_code \in {0, 1}
             /\ (exit_code = 0) <=> (errors = <<>>)

\* main has returned 1 after the first chart raised, the second wrote an
\* empty file and every later chart was written
C21_Witness ==
    /\ dashboardPc = "done"
    /\ exit_code = 1
    /\ Len(chart_outcomes) = Len(ChartConfigs)
    /\ chart_outcomes[1] = "raised"
    /\ chart_outcomes[2] = "empty"
    /\ Len(errors) = 2
    /\ Len(charts_generated) = Len(ChartConfigs) - 2

----------------------------------------------------------------------------
(* Properties of the collector *)

CollectorDone == collectorPc = "done"

RecordsOf(name) ==
    {i \in 1..Len(collected_data) : collected_data[i].repo = name}

\* C22: when the API raises while one repository is processed, at whatever
\* point of its iteration, the returned list holds no record of that
\* repository.
C22_NoRecordOfFailingRepo ==
    CollectorDone =>
       \A r \in 1..Len(CollectorRepos) :
          api_fail[r] # 0 => RecordsOf(CollectorRepos[r]) = {}

\* what does hold: the call returns, and a repository that did not fail
\* has all its records in the list, in the order the API yielded them
CollectorKeepsHealthyRepos ==
    CollectorDone =>
       \A r \in 1..Len(CollectorRepos) :
          api_fail[r] = 0 =>
             SelectSeq(collected_data, LAMBDA rec : rec.repo = CollectorRepos[r])
                = RepoRecords(collect_method, CollectorRepos[r], api_items[r], 0, 1)

----------------------------------------------------------------------------
(* Properties of daily_metrics.main *)

MainExited == mainPc = "exited"

\* C23: with the access-token variable absent or empty, main exits with
\* status 1 before a collector is created, before any API call and before
\* any file is written, so the four snapshot files are left unchanged.
C23_NoTokenExitsBeforeAnything ==
    token \in {"absent", ""} =>
       /\ mainPc \in {"token", "exited"}
       /\ ~collector_created
       /\ ~api_called
       /\ write_log = <<>>
       /\ files = files_before
       /\ MainExited => main_exit = 1

\* the process has exited on an empty token with snapshot files present
C23_Witness ==
    /\ token = ""
    /\ MainExited
    /\ main_exit = 1
    /\ \A k \in 1..Len(files) : files[k] = "old"

IsPrefixOf(s, t) == Len(s) <= Len(t) /\ \A i \in 1..Len(s) : s[i] = t[i]

\* C30: the files are written in the order metrics.json,
\* daily_activity.json, projects.json, history.json, each right after its
\* own collection step; if collection step k raises, the process exits
\* with status 1, the files of the steps before k hold this run's data and
\* the files of step k and later keep their previous content; history.json
\* is written only in a run whose three collections succeeded.
C30_FilesWrittenInStepOrder ==
    /\ IsPrefixOf(write_log,
                  <<"metrics.json", "daily_activity.json", "projects.json",
                    "history.json">>)
    /\ \A k \in 1..4 :
          (mainPc = "step" \o ToString(k)) =>
             /\ Len(write_log) = k - 1
             /\ \A j \in 1..(k - 1) : files[j] = "new"
    /\ (MainExited /\ failed_step # 0 /\ failed_in = "collect") =>
          /\ main_exit = 1
          /\ \A j \in 1..4 :
                files[j] = IF j < failed_step THEN "new" ELSE files_before[j]
    /\ (Len(write_log) = 4) =>
          /\ failed_step \notin 1..3
          /\ \A j \in 1..3 : files[j] = "new"

\* the run stopped because the third collection raised: the first two
\* files hold new data, projects.json and history.json are as before
C30_Witness ==
    /\ MainExited
    /\ failed_step = 3
    /\ failed_in = "collect"
    /\ files = <<"new", "new", "old", "old">>
    /\ files_before = <<"old", "old", "old", "old">>

----------------------------------------------------------------------------
(* Properties of the monthly history *)

HistoryMonths == {history[i].month : i \in 1..Len(history)}

\* the n largest elements of a set of months
RECURSIVE Latest(_, _)
Latest(S, n) ==
    IF n = 0 \/ S = {} THEN {}
    ELSE {SetMax(S)} \cup Latest(S \ {SetMax(S)}, n - 1)

\* C24: after any sequence of update_history calls over non-decreasing
\* months, monthly_snapshots holds at most one snapshot per month and at
\* most 12 (HistoryKeep) snapshots, those of the most recent recorded
\* months including the current one; a second call in the same month
\* replaces that month's snapshot by the new metrics.
C24_OneSnapshotPerRecentMonth ==
    history_calls =>
       /\ Len(history) <= HistoryKeep
       /\ Cardinality(HistoryMonths) = Len(history)
       /\ HistoryMonths = Latest(recorded_months, HistoryKeep)
       /\ \E i \in 1..Len(history) :
             history[i] = Snapshot(last_month, last_metrics)

\* a month recorded twice with different metrics after older months fell
\* out of a full history
C24_Witness ==
    /\ history_calls
    /\ Len(history) = HistoryKeep
    /\ Cardinality(recorded_months) > HistoryKeep
    /\ updated
    /\ last_metrics = 2
    /\ history[1] = Snapshot(last_month, 2)

\* C26: for a history written by update_history with at least 2
\* snapshots, generate_stats_hero reads as previous month the snapshot of
\* the month just before the most recent one, and
\* generate_performance_comparison reads as current the most recent one.
C26_ReadersTakeLatestMonths ==
    (history_calls /\ Len(history) >= 2) =>
       /\ StatsHeroPrevData(history).month
             = SetMax(HistoryMonths \ {SetMax(HistoryMonths)})
       /\ ComparisonCurrent(history).month = SetMax(HistoryMonths)

----------------------------------------------------------------------------
(* Properties of the developer tier *)

TierRank(t) ==
    CASE t = "Beginner" -> 1
      [] t = "Intermediate" -> 2
      [] t = "Advanced" -> 3
      [] t = "Expert" -> 4
      [] t = "Elite" -> 5

\* m2 has one input larger than m1 and the others equal
GrowsInOneInput(m1, m2) ==
    \E f \in {"total_commits", "total_repos", "current_streak", "total_prs"} :
        /\ m2[f] > m1[f]
        /\ \A g \in {"total_commits", "total_repos", "current_streak", "total_prs"} \ {f} :
              m2[g] = m1[g]

\* C25: _calculate_tier computes score = 2*commits + 5*repos + 3*streak +
\* 4*pull requests and returns Elite from 1000, Expert from 600, Advanced
\* from 350, Intermediate from 150 and Beginner below; the tier never
\* drops when one input grows and the others stay fixed.
C25_TierBandsAndMonotone ==
    "calculate_tier" \in tier_done =>
       LET m == tier_metrics
           s == 2 * m.total_commits + 5 * m.total_repos
                   + 3 * m.current_streak + 4 * m.total_prs
       IN  /\ tier_result.score = s
           /\ (tier_result.tier = "Elite") <=> (s >= 1000)
           /\ (tier_result.tier = "Expert") <=> (s >= 600 /\ s < 1000)
           /\ (tier_result.tier = "Advanced") <=> (s >= 350 /\ s < 600)
           /\ (tier_result.tier = "Intermediate") <=> (s >= 150 /\ s < 350)
           /\ (tier_result.tier = "Beginner") <=> (s < 150)
           /\ \A m2 \in TierMetrics :
                 GrowsInOneInput(m, m2) =>
                    TierRank(CalculateTier(m2).tier) >= TierRank(tier_result.tier)

\* _calculate_tier has returned Intermediate for a score of exactly 150
C25_Witness ==
    /\ "calculate_tier" \in tier_done
    /\ tier_result.score = 150
    /\ tier_result.tier = "Intermediate"

\* what C28 asks of one card
CardProgressConsistent(card) ==
    /\ card.tier # "Elite" =>
          /\ card.score < card.next_threshold
          /\ TierRank(card.next_tier) = TierRank(card.tier) + 1
          /\ card.progress >= 0 /\ card.progress < 10000
    /\ card.tier = "Elite" => card.progress = 10000

\* C28: in generate_tier_card and generate_streak_card, when the tier is
\* not Elite the score is below the threshold listed for the tier, the
\* next tier is the one just above, the progress lies in [0, 100) and
\* points_needed > 0; for Elite the progress is exactly 100.
C28_ProgressBelowNextTier ==
    /\ "tier_card" \in tier_done =>
          /\ CardProgressConsistent(tier_card)
          /\ tier_card.tier # "Elite" => tier_card.points_needed > 0
    /\ "streak_card" \in tier_done => CardProgressConsistent(streak_card_tier)

\* both cards drawn for a score one point below Elite, and for it the
\* progress is 99.9 percent with one point needed
C28_Witness ==
    /\ {"tier_card", "streak_card"} \subseteq tier_done
    /\ tier_card.tier = "Expert"
    /\ tier_card.score = 999
    /\ tier_card.progress = 9990
    /\ tier_card.points_needed = 1
    /\ streak_card_tier.progress = 9990

\* C29: for the same metrics generate_tier_simple and
\* generate_tier_compact show the tier label _calculate_tier returns and
\* the same score.
C29_SameTierEverywhere ==
    {"calculate_tier", "tier_simple", "tier_compact"} \subseteq tier_done =>
       /\ tier_simple.tier = tier_result.tier
       /\ tier_compact.tier = tier_result.tier
       /\ tier_simple.score = tier_result.score
       /\ tier_compact.score = tier_result.score

----------------------------------------------------------------------------
(* The two streak computations compared *)

\* C27: from the same commits and the same today, with every commit date
\* within the last 365 days, daily_metrics.calculate_activity_streak and
\* MetricsProcessor.calculate_activity_streak give the same current and
\* the same longest streak.
C27_ScriptEqualsProcessor ==
    (ProcessorDone /\ ScriptDone
        /\ \A i \in 1..Len(commits) :
              commits[i].date <= today /\ today - commits[i].date < LookbackDays)
        => (script_streak.current = streak.current
              /\ script_streak.longest = streak.longest)

====
